---- MODULE Spec2Model ----
(***************************************************************************)
(* Model of the impact-risk engine of Cosmic-Watch:                        *)
(*   backend/utils/riskEngine.js   (calculateRiskScore,                    *)
(*                                  calculateProximityScore, assessRisk,   *)
(*                                  batchAssessRisk)                       *)
(*   backend/utils/torinoScale.js  (src/unnamed/part_018)                  *)
(*   backend/utils/monteCarloSimulator.js (src/unnamed/part_017)           *)
(*                                                                         *)
(* Numbers.  JavaScript numbers are modelled by exact rationals            *)
(* [n |-> numerator, d |-> denominator > 0] kept in lowest terms, so that  *)
(* every comparison against a threshold is decided exactly.  Physical      *)
(* quantities (mass, energy), whose magnitude exceeds the integer range,   *)
(* are modelled by decimal floating-point numbers [m, e] standing for      *)
(* m * 10^e with a mantissa of at most four significant digits: like the   *)
(* IEEE doubles of the code they round after every operation, and they     *)
(* represent the decimal thresholds and the inputs drawn here exactly.     *)
(***************************************************************************)
EXTENDS Integers, Sequences, FiniteSets, TLC

\* pc, fn, args, ret: the call in progress and its outcome; ingestionStats: the
\* module-level object of dataIngestion.service.js
VARIABLES pc, fn, args, ret, ingestionStats

vars == <<pc, fn, args, ret, ingestionStats>>

----------------------------------------------------------------------------
(* Exact rational arithmetic                                               *)

Abs(x) == IF x < 0 THEN -x ELSE x

RECURSIVE GCD(_, _)
GCD(a, b) == IF b = 0 THEN a ELSE GCD(b, a % b)

\* n/d in lowest terms with a positive denominator (d # 0)
Rat(n, d) ==
  LET g == GCD(Abs(n), Abs(d))
      s == IF d < 0 THEN -1 ELSE 1
  IN  [n |-> (s * n) \div g, d |-> (s * d) \div g]

RInt(k) == [n |-> k, d |-> 1]

RAdd(a, b) ==
  LET g == GCD(a.d, b.d)
  IN  Rat(a.n * (b.d \div g) + b.n * (a.d \div g), (a.d \div g) * b.d)

RNeg(a) == [n |-> -a.n, d |-> a.d]

RSub(a, b) == RAdd(a, RNeg(b))

RMul(a, b) ==
  LET g1 == GCD(Abs(a.n), b.d)
      g2 == GCD(Abs(b.n), a.d)
  IN  IF a.n = 0 \/ b.n = 0 THEN RInt(0)
      ELSE [n |-> (a.n \div g1) * (b.n \div g2), d |-> (a.d \div g2) * (b.d \div g1)]

\* a / b for b # 0
RDiv(a, b) == RMul(a, Rat(b.d, b.n))

RLt(a, b) == a.n * b.d < b.n * a.d

RLe(a, b) == a.n * b.d <= b.n * a.d

RGe(a, b) == RLe(b, a)

\* Math.min / Math.max on two numbers
RMin(a, b) == IF RLt(b, a) THEN b ELSE a

RMax(a, b) == IF RLt(a, b) THEN b ELSE a

\* Math.round: the nearest integer, halves rounded towards +Infinity
MathRound(a) == (2 * a.n + a.d) \div (2 * a.d)

IsInteger(a) == a.d = 1

----------------------------------------------------------------------------
(* riskEngine.js: constants                                                *)

PHA_STATUS == 25
PROXIMITY == 30
SIZE == 25
VELOCITY == 10
PROBABILITY == 10

LUNAR == 384400
CLOSE == 1000000
MODERATE == 5000000
SAFE == 7500000

\* missDistanceKm || 1e9 in assessRisk
FarAwayKm == 1000000000

----------------------------------------------------------------------------
(* riskEngine.js: calculateProximityScore, calculateRiskScore              *)

\* a plausible slip: the final band is forgotten, so the formula of the
\* moderate-to-safe band also applies beyond the safe threshold
ProximityNoSafeBand(distanceKm) ==
  IF distanceKm < LUNAR THEN RInt(100)
  ELSE IF distanceKm < CLOSE
    THEN RAdd(RInt(80), RMul(RInt(20), RSub(RInt(1), Rat(distanceKm, LUNAR))))
  ELSE IF distanceKm < MODERATE
    THEN RAdd(RInt(40), RMul(RInt(40), RSub(RInt(1), Rat(distanceKm, CLOSE))))
  ELSE RMul(RInt(40), RSub(RInt(1), Rat(distanceKm, MODERATE)))

\* distanceKm is an integer number of km; the result is a rational
calculateProximityScore(distanceKm) ==
  IF distanceKm < LUNAR THEN RInt(100)
  ELSE IF distanceKm < CLOSE
    THEN RAdd(RInt(80), RMul(RInt(20), RSub(RInt(1), Rat(distanceKm, LUNAR))))
  ELSE IF distanceKm < MODERATE
    THEN RAdd(RInt(40), RMul(RInt(40), RSub(RInt(1), Rat(distanceKm, CLOSE))))
  ELSE IF distanceKm < SAFE
    THEN RMul(RInt(40), RSub(RInt(1), Rat(distanceKm, MODERATE)))
  ELSE RInt(0)

\* the score before the final clamp and rounding; diameterMax is a rational
\* number of metres, missDistanceKm an integer number of km
RawRiskScore(isHazardous, diameterMax, missDistanceKm) ==
  LET s0 == IF isHazardous THEN RInt(PHA_STATUS) ELSE RInt(0)
      diameterKm == RDiv(diameterMax, RInt(1000))
      sizeScore == RMin(RMul(diameterKm, RInt(10)), RInt(SIZE))
      proximityScore == calculateProximityScore(missDistanceKm)
  IN  RAdd(RAdd(s0, sizeScore), RMul(proximityScore, Rat(PROXIMITY, 100)))

\* a plausible slip: the clamp to [0,100] is forgotten
RiskScoreNoClamp(isHazardous, diameterMax, missDistanceKm) ==
  RInt(MathRound(RawRiskScore(isHazardous, diameterMax, missDistanceKm)))

\* a plausible slip: the hazardous flag contributes the proximity weight
\* instead of the PHA weight
RiskScoreWrongWeight(isHazardous, diameterMax, missDistanceKm) ==
  RInt(MathRound(RMin(RInt(100), RMax(RInt(0),
    RAdd(RawRiskScore(isHazardous, diameterMax, missDistanceKm),
         IF isHazardous THEN RInt(PROXIMITY - PHA_STATUS) ELSE RInt(0))))))

\* the result is the JavaScript number Math.round returns, as a rational
calculateRiskScore(isHazardous, diameterMax, missDistanceKm) ==
  RInt(MathRound(RMin(RInt(100), RMax(RInt(0),
    RawRiskScore(isHazardous, diameterMax, missDistanceKm)))))

----------------------------------------------------------------------------
(* Decimal floating point: [m |-> mantissa, e |-> exponent] = m * 10^e     *)

\* canonical form: |m| < 10000 (extra digits are dropped) and m carries no
\* trailing zero; zero is [0, 0]
RECURSIVE Dec(_, _)
Dec(m, e) ==
  IF m = 0 THEN [m |-> 0, e |-> 0]
  ELSE IF Abs(m) >= 10000
    THEN Dec((IF m < 0 THEN -1 ELSE 1) * (Abs(m) \div 10), e + 1)
  ELSE IF m % 10 = 0 THEN Dec(m \div 10, e + 1)
  ELSE [m |-> m, e |-> e]

\* the same value with a mantissa of exactly four digits (m # 0)
RECURSIVE DWide(_)
DWide(a) == IF Abs(a.m) >= 1000 THEN a ELSE DWide([m |-> a.m * 10, e |-> a.e - 1])

DMul(a, b) == Dec(a.m * b.m, a.e + b.e)

\* a / b for b # 0
DDiv(a, b) ==
  IF a.m = 0 THEN Dec(0, 0)
  ELSE LET w == DWide(a)
           s == IF (w.m < 0) = (b.m < 0) THEN 1 ELSE -1
       IN  Dec(s * ((Abs(w.m) * 100000) \div Abs(b.m)), w.e - 5 - b.e)

\* a < b
DLt(a, b) ==
  IF a.m <= 0 \/ b.m <= 0
    THEN IF a.m < 0 /\ b.m < 0
           THEN LET x == DWide(a)
                    y == DWide(b)
                IN  x.e > y.e \/ (x.e = y.e /\ x.m < y.m)
         ELSE a.m < b.m
  ELSE LET x == DWide(a)
           y == DWide(b)
       IN  x.e < y.e \/ (x.e = y.e /\ x.m < y.m)

DGe(a, b) == ~DLt(a, b)

\* the rational n/d as a decimal
DFromRat(r) == DDiv(Dec(r.n, 0), Dec(r.d, 0))

----------------------------------------------------------------------------
(* torinoScale.js                                                          *)

\* ENERGY_THRESHOLDS.LOCAL, .REGIONAL and .GLOBAL, in megatons TNT
ENERGY_LOCAL == Dec(1, -3)
ENERGY_REGIONAL == Dec(1, 0)
ENERGY_GLOBAL == Dec(1, 3)

\* the level the rule ladder assigns to valid inputs
TorinoLevel(impactProbability, energyMT) ==
  IF DLt(energyMT, ENERGY_LOCAL) THEN 0
  ELSE IF RGe(impactProbability, Rat(99, 100))
    THEN IF DGe(energyMT, ENERGY_GLOBAL) THEN 10
         ELSE IF DGe(energyMT, ENERGY_REGIONAL) THEN 9
         ELSE 8
  ELSE IF RGe(impactProbability, Rat(1, 100))
    THEN IF DGe(energyMT, ENERGY_GLOBAL)
           THEN IF RGe(impactProbability, Rat(1, 2)) THEN 7 ELSE 6
         ELSE IF DGe(energyMT, ENERGY_REGIONAL) THEN 5
         ELSE 4
  ELSE IF RGe(impactProbability, Rat(1, 1000))
    THEN IF DGe(energyMT, ENERGY_REGIONAL) THEN 4 ELSE 3
  ELSE IF RGe(impactProbability, Rat(1, 10000))
    THEN IF DGe(energyMT, ENERGY_REGIONAL) THEN 3
         ELSE IF DGe(energyMT, ENERGY_LOCAL) THEN 2
         ELSE 1
  ELSE IF RLt(RInt(0), impactProbability) /\ DGe(energyMT, ENERGY_LOCAL) THEN 1
  ELSE 0

\* a plausible slip: the small-object rule is tested after the
\* certain-collision rule instead of before it
TorinoSmallObjectLate(impactProbability, energyMT) ==
  IF RLt(impactProbability, RInt(0)) \/ RLt(RInt(1), impactProbability)
    THEN [threw |-> TRUE, error |-> "Impact probability must be between 0 and 1"]
  ELSE IF DLt(energyMT, Dec(0, 0))
    THEN [threw |-> TRUE, error |-> "Energy must be non-negative"]
  ELSE [threw |-> FALSE,
        level |-> IF RGe(impactProbability, Rat(99, 100)) /\ DLt(energyMT, ENERGY_LOCAL)
                    THEN 8 ELSE TorinoLevel(impactProbability, energyMT)]

\* a plausible slip: the certain-collision threshold is written 0.999
TorinoCertainAt999(impactProbability, energyMT) ==
  IF RLt(impactProbability, RInt(0)) \/ RLt(RInt(1), impactProbability)
    THEN [threw |-> TRUE, error |-> "Impact probability must be between 0 and 1"]
  ELSE IF DLt(energyMT, Dec(0, 0))
    THEN [threw |-> TRUE, error |-> "Energy must be non-negative"]
  ELSE [threw |-> FALSE,
        level |-> IF RGe(impactProbability, Rat(99, 100))
                     /\ RLt(impactProbability, Rat(999, 1000))
                    THEN TorinoLevel(Rat(98, 100), energyMT)
                    ELSE TorinoLevel(impactProbability, energyMT)]

\* a plausible slip: the sub-probability test of the global band is > 0.5
TorinoHalfExclusive(impactProbability, energyMT) ==
  IF RLt(impactProbability, RInt(0)) \/ RLt(RInt(1), impactProbability)
    THEN [threw |-> TRUE, error |-> "Impact probability must be between 0 and 1"]
  ELSE IF DLt(energyMT, Dec(0, 0))
    THEN [threw |-> TRUE, error |-> "Energy must be non-negative"]
  ELSE [threw |-> FALSE,
        level |-> IF impactProbability = Rat(1, 2) /\ DGe(energyMT, ENERGY_GLOBAL)
                    THEN 6 ELSE TorinoLevel(impactProbability, energyMT)]

\* a plausible slip: the negligible-probability rule tests >= 0 instead of > 0
TorinoZeroProbabilityLevel1(impactProbability, energyMT) ==
  IF RLt(impactProbability, RInt(0)) \/ RLt(RInt(1), impactProbability)
    THEN [threw |-> TRUE, error |-> "Impact probability must be between 0 and 1"]
  ELSE IF DLt(energyMT, Dec(0, 0))
    THEN [threw |-> TRUE, error |-> "Energy must be non-negative"]
  ELSE [threw |-> FALSE,
        level |-> IF impactProbability = RInt(0) /\ DGe(energyMT, ENERGY_LOCAL)
                    THEN 1 ELSE TorinoLevel(impactProbability, energyMT)]

\* a plausible slip: the energy validation is missing
TorinoNoEnergyCheck(impactProbability, energyMT) ==
  IF RLt(impactProbability, RInt(0)) \/ RLt(RInt(1), impactProbability)
    THEN [threw |-> TRUE, error |-> "Impact probability must be between 0 and 1"]
  ELSE [threw |-> FALSE, level |-> TorinoLevel(impactProbability, energyMT)]

\* a plausible slip: in the band 0.001 <= p < 0.01 the two levels are
\* swapped, the regional energy getting the lower one
TorinoLowBandSwapped(impactProbability, energyMT) ==
  IF RLt(impactProbability, RInt(0)) \/ RLt(RInt(1), impactProbability)
    THEN [threw |-> TRUE, error |-> "Impact probability must be between 0 and 1"]
  ELSE IF DLt(energyMT, Dec(0, 0))
    THEN [threw |-> TRUE, error |-> "Energy must be non-negative"]
  ELSE [threw |-> FALSE,
        level |-> IF /\ RGe(impactProbability, Rat(1, 1000))
                     /\ RLt(impactProbability, Rat(1, 100))
                     /\ DGe(energyMT, ENERGY_LOCAL)
                    THEN IF DGe(energyMT, ENERGY_REGIONAL) THEN 3 ELSE 4
                  ELSE TorinoLevel(impactProbability, energyMT)]

\* the call either throws (no level is returned) or returns a level
calculateTorinoScale(impactProbability, energyMT) ==
  IF RLt(impactProbability, RInt(0)) \/ RLt(RInt(1), impactProbability)
    THEN [threw |-> TRUE, error |-> "Impact probability must be between 0 and 1"]
  ELSE IF DLt(energyMT, Dec(0, 0))
    THEN [threw |-> TRUE, error |-> "Energy must be non-negative"]
  ELSE [threw |-> FALSE, level |-> TorinoLevel(impactProbability, energyMT)]

\* Math.PI to four significant digits
PI == Dec(3142, -3)

\* the kinetic energy in megatons TNT of a sphere of the given diameter (km),
\* velocity (km/s) and density (kg/m^3); all three decimals
EnergyMT(diameter, velocity, density) ==
  LET radiusM == DDiv(DMul(diameter, Dec(1000, 0)), Dec(2, 0))
      volume == DMul(DMul(DDiv(Dec(4, 0), Dec(3, 0)), PI),
                     DMul(radiusM, DMul(radiusM, radiusM)))
      mass == DMul(volume, density)
      velocityMs == DMul(velocity, Dec(1000, 0))
      energyJoules == DMul(DMul(Dec(5, -1), mass), DMul(velocityMs, velocityMs))
  IN  DDiv(energyJoules, Dec(4184, 12))

\* a plausible slip: the classifier's error is caught and a default level
\* returned
FromParametersSwallows(impactProbability, diameter, velocity, density) ==
  LET result == calculateTorinoScale(impactProbability,
                                     EnergyMT(diameter, velocity, density))
  IN  IF result.threw THEN [threw |-> FALSE, level |-> 0] ELSE result

\* nothing catches: an error of calculateTorinoScale is the call's outcome
calculateFromParameters(impactProbability, diameter, velocity, density) ==
  calculateTorinoScale(impactProbability, EnergyMT(diameter, velocity, density))

----------------------------------------------------------------------------
(* riskEngine.js: assessRisk, batchAssessRisk                              *)

\* a JavaScript undefined / null property value
Undefined == [undef |-> TRUE]

IsUndef(x) == "undef" \in DOMAIN x

\* JavaScript falsiness of a property that holds a number or nothing
Falsy(x) == IsUndef(x) \/ x.n = 0

\* estimateDiameter for an absolute magnitude H that is a multiple of 5, so
\* that 10^(-H/5) is an exact power of ten; 1329 / sqrt(0.14) = 3551.9...
\* is taken to four significant digits
estimateDiameter(absoluteMagnitude) ==
  IF Falsy(absoluteMagnitude) THEN Rat(1, 10)
  ELSE Rat(3552, 10 ^ (absoluteMagnitude.n \div 5))

calculateComprehensiveScore(isPHA, proximityScore, sizeScore, velocityScore, probabilityScore) ==
  LET s1 == IF isPHA THEN RInt(PHA_STATUS) ELSE RInt(0)
      s2 == RAdd(s1, RMul(RDiv(proximityScore, RInt(100)), RInt(PROXIMITY)))
      s3 == RAdd(s2, RMul(RDiv(sizeScore, RInt(100)), RInt(SIZE)))
      s4 == RAdd(s3, RMul(RDiv(velocityScore, RInt(100)), RInt(VELOCITY)))
      s5 == RAdd(s4, RMin(RMul(RDiv(probabilityScore, RInt(100)), RInt(PROBABILITY)),
                          RInt(PROBABILITY)))
  IN  RInt(MathRound(RMin(RInt(100), RMax(RInt(0), s5))))

\* score is a rational, torinoLevel an integer
classifyRisk(score, torinoLevel) ==
  IF torinoLevel >= 8 THEN "CRITICAL"
  ELSE IF torinoLevel >= 5 THEN "SEVERE"
  ELSE IF torinoLevel >= 3 THEN "HIGH"
  ELSE IF RGe(score, RInt(70)) \/ torinoLevel >= 2 THEN "ELEVATED"
  ELSE IF RGe(score, RInt(40)) \/ torinoLevel >= 1 THEN "MODERATE"
  ELSE IF RGe(score, RInt(20)) THEN "LOW"
  ELSE "MINIMAL"

\* miss distances are whole numbers of km
ProximityOf(missDistanceKm) ==
  calculateProximityScore(IF Falsy(missDistanceKm) THEN FarAwayKm
                          ELSE missDistanceKm.n)

\* a plausible slip: the simulator is started for every asteroid with orbital
\* elements, whether or not an encounter date was passed
SimulateWithoutDate(orbitalElements, hasEncounterDate) == orbitalElements

\* if (orbitalElements && encounterDate)
ShouldSimulate(orbitalElements, hasEncounterDate) ==
  orbitalElements /\ hasEncounterDate

\* The outcome of runSimulation is an input here: sim.threw tells whether the
\* simulation threw, sim.impacts is its impact count out of numSimulations.
\* The call is rejected ([threw |-> TRUE]) when destructuring a null asteroid
\* or calculateFromParameters throws.
assessRisk(asteroid, hasEncounterDate, numSimulations, sim) ==
  IF asteroid.isNull
    THEN [threw |-> TRUE, error |-> "Cannot destructure property of null"]
  ELSE
    LET hazardous == asteroid.isHazardous \/ asteroid.isPHA
        relativeVelocity == IF IsUndef(asteroid.relativeVelocity) THEN RInt(15)
                            ELSE asteroid.relativeVelocity
        estimatedDiameter == IF Falsy(asteroid.diameter)
                               THEN estimateDiameter(asteroid.absoluteMagnitude)
                               ELSE asteroid.diameter
        basicScore ==
          calculateRiskScore(hazardous, RMul(estimatedDiameter, RInt(1000)),
                             IF Falsy(asteroid.missDistanceKm) THEN FarAwayKm
                             ELSE asteroid.missDistanceKm.n)
        simulated == ShouldSimulate(asteroid.orbitalElements, hasEncounterDate)
        monteCarloResult ==
          IF simulated /\ ~sim.threw
            THEN [impactProbability |-> Rat(sim.impacts, numSimulations)]
            ELSE Undefined
        energyMegatons == EnergyMT(DFromRat(estimatedDiameter),
                                   DFromRat(relativeVelocity), Dec(2500, 0))
        impactProbability == IF IsUndef(monteCarloResult) THEN RInt(0)
                             ELSE monteCarloResult.impactProbability
        torinoResult ==
          calculateFromParameters(impactProbability, DFromRat(estimatedDiameter),
                                  DFromRat(relativeVelocity), Dec(2500, 0))
        comprehensiveScore ==
          calculateComprehensiveScore(
            hazardous,
            ProximityOf(asteroid.missDistanceKm),
            RMin(RInt(100), RMul(estimatedDiameter, RInt(50))),
            RMin(RInt(100), RMul(relativeVelocity, RInt(3))),
            RMul(impactProbability, RInt(100000)))
    IN  IF torinoResult.threw
          THEN [threw |-> TRUE, error |-> torinoResult.error,
                simulationRun |-> simulated]
        ELSE [threw |-> FALSE,
              asteroidName |-> asteroid.name,
              basicScore |-> basicScore,
              comprehensiveScore |-> comprehensiveScore,
              torinoLevel |-> torinoResult.level,
              monteCarlo |-> monteCarloResult,
              simulationRun |-> simulated,
              impactEnergyMegatons |-> energyMegatons,
              estimatedDiameter |-> estimatedDiameter,
              relativeVelocity |-> relativeVelocity,
              missDistanceKm |-> asteroid.missDistanceKm,
              classification |-> classifyRisk(comprehensiveScore, torinoResult.level)]

\* the result of arithmetic on undefined
NaN == [nan |-> TRUE]

\* the catch block of the per-item callback: it reads asteroid.name first,
\* which throws again when the asteroid is null.  Nothing is defaulted here:
\* an undefined diameter makes the score NaN, and an undefined miss distance
\* compares false with every threshold of calculateProximityScore, the
\* branch a distance at the safe threshold takes
CatchBlock(asteroid, failure) ==
  IF asteroid.isNull
    THEN [threw |-> TRUE, error |-> "Cannot read properties of null"]
  ELSE [threw |-> FALSE,
        asteroidName |-> asteroid.name,
        error |-> failure.error,
        basicScore |->
          IF IsUndef(asteroid.diameter) THEN NaN
          ELSE calculateRiskScore(asteroid.isHazardous,
                                  RMul(asteroid.diameter, RInt(1000)),
                                  IF IsUndef(asteroid.missDistanceKm)
                                    THEN SAFE
                                    ELSE asteroid.missDistanceKm.n)]

\* the async callback batchAssessRisk maps over the list.  Inside the try,
\* reading asteroid.closeApproachDate throws for a null asteroid before
\* assessRisk is called; the encounter date passed is always a Date object,
\* and the sample count is 1000
AssessItem(asteroid, sim) ==
  LET r == IF asteroid.isNull
             THEN [threw |-> TRUE, error |-> "Cannot read properties of null"]
             ELSE assessRisk(asteroid, TRUE, 1000, sim)
  IN  IF r.threw THEN CatchBlock(asteroid, r) ELSE r

\* (x.comprehensiveScore || x.basicScore)
SortKey(x) ==
  IF "comprehensiveScore" \in DOMAIN x /\ x.comprehensiveScore.n # 0
    THEN x.comprehensiveScore
    ELSE x.basicScore

\* Array.prototype.sort with (a, b) => key(b) - key(a): stable, descending
RECURSIVE InsertSorted(_, _)
InsertSorted(x, sorted) ==
  IF sorted = <<>> THEN <<x>>
  ELSE IF RLt(SortKey(Head(sorted)), SortKey(x)) THEN <<x>> \o sorted
  ELSE <<Head(sorted)>> \o InsertSorted(x, Tail(sorted))

RECURSIVE SortDescending(_)
SortDescending(list) ==
  IF list = <<>> THEN <<>>
  ELSE InsertSorted(list[Len(list)], SortDescending(SubSeq(list, 1, Len(list) - 1)))

\* each result is tagged with the position of its asteroid in the input
\* (item), which the code does not store
ItemResults(asteroids, sims) ==
  [i \in 1..Len(asteroids) |->
     [item |-> i] @@ AssessItem(asteroids[i], sims[i])]

\* Promise.all rejects when a callback's promise rejects; otherwise the list
\* of results is sorted and returned
batchAssessRisk(asteroids, sims) ==
  LET results == ItemResults(asteroids, sims)
  IN  IF \E i \in 1..Len(asteroids) : results[i].threw
        THEN [threw |-> TRUE,
              error |-> results[CHOOSE i \in 1..Len(asteroids) :
                                  /\ results[i].threw
                                  /\ \A j \in 1..(i - 1) : ~results[j].threw].error]
      ELSE [threw |-> FALSE, value |-> SortDescending(results)]

----------------------------------------------------------------------------
(* Inputs                                                                  *)

\* probabilities: both sides of 0, 0.0001, 0.001, 0.01, 0.5, 0.99 and 1
Probabilities ==
  {Rat(-1, 10), RInt(0), Rat(1, 100000), Rat(9, 100000), Rat(1, 10000),
   Rat(5, 10000), Rat(999, 1000000), Rat(1, 1000), Rat(5, 1000),
   Rat(999, 100000), Rat(1, 100), Rat(1, 4), Rat(49, 100), Rat(1, 2),
   Rat(3, 4), Rat(98, 100), Rat(989, 1000), Rat(99, 100), Rat(995, 1000),
   RInt(1), Rat(11, 10)}

\* energies in megatons: both sides of 0, 0.001, 1 and 1000
Energies ==
  {Dec(-1, 0), Dec(-1, -6), Dec(0, 0), Dec(5, -4), Dec(999, -6), Dec(1, -3),
   Dec(1001, -6), Dec(5, -1), Dec(999, -3), Dec(1, 0), Dec(500, 0),
   Dec(999, 0), Dec(1000, 0), Dec(2000, 0), Dec(1, 6)}

\* diameters in km, velocities in km/s and densities in kg/m^3 for
\* calculateFromParameters
DiametersKm == {Rat(-1, 10), RInt(0), Rat(1, 1000), Rat(1, 100), Rat(1, 10), RInt(1), RInt(10)}

Velocities == {RInt(0), RInt(15), RInt(30)}

Densities == {-2500, 2500}

\* distances in km: both sides of every band boundary, interior points of
\* every band, and the 1e9 km default
Distances ==
  {0, 100, 200000, 384300, 384400, 384500, 700000, 999900, 1000000, 1000100,
   3000000, 4999900, 5000000, 5000100, 6000000, 7499900, 7500000, 7500100,
   FarAwayKm}

\* diameters in metres (non-negative)
DiametersM == {0, 40, 100, 340, 1000, 2490, 2500, 2510, 4000, 100000}

\* the longest list batchAssessRisk is given
MaxBatch == 2

NullAsteroid == [isNull |-> TRUE]

Asteroid(name, hazardous, pha, diameter, magnitude, elements, miss, velocity) ==
  [isNull |-> FALSE, name |-> name, isHazardous |-> hazardous, isPHA |-> pha,
   diameter |-> diameter, absoluteMagnitude |-> magnitude,
   orbitalElements |-> elements, missDistanceKm |-> miss,
   relativeVelocity |-> velocity]

\* a hazardous body with elements inside the lunar distance; a body with
\* orbitalElements = null and nothing else known; a body with a negative
\* diameter, whose assessment fails; a large fast body in the negative part
\* of the proximity score; a body known by its magnitude only; a hazardous
\* body reported with a negative relative velocity, whose comprehensive
\* score rounds to 0; and a null entry of the list
Asteroids ==
  {Asteroid("Apophis", TRUE, FALSE, Rat(37, 100), Undefined, TRUE, RInt(300000), Undefined),
   Asteroid("NoElements", FALSE, FALSE, Undefined, Undefined, FALSE, Undefined, Undefined),
   Asteroid("NegativeDiameter", TRUE, FALSE, Rat(-1, 10), Undefined, TRUE, RInt(2000000), Undefined),
   Asteroid("Big", FALSE, FALSE, RInt(2), Undefined, TRUE, RInt(6000000), RInt(30)),
   Asteroid("MagnitudeOnly", FALSE, TRUE, Undefined, RInt(20), TRUE, RInt(700000), Undefined),
   Asteroid("Receding", TRUE, FALSE, Rat(1, 10), Undefined, FALSE, Undefined, RInt(-100)),
   NullAsteroid}

\* outcomes of runSimulation with 1000 samples: it throws, or counts this
\* many impacts
NoSim == [threw |-> FALSE, impacts |-> 0]

SimOutcomes ==
  {[threw |-> TRUE, impacts |-> 0]}
    \cup {[threw |-> FALSE, impacts |-> k] : k \in {0, 1, 1000}}

\* the simulation runs only for an asteroid object with orbital elements
SimOutcomesFor(asteroid) ==
  IF ~asteroid.isNull /\ asteroid.orbitalElements THEN SimOutcomes ELSE {NoSim}

AsteroidLists == UNION {[1..k -> Asteroids] : k \in 0..MaxBatch}

----------------------------------------------------------------------------
(* Calls                                                                   *)

\* let ingestionStats = {lastRun: null, lastFullSync: null,
\* asteroidsProcessed: 0, errors: [], isRunning: false}
InitialStats ==
  [lastRun |-> Undefined, lastFullSync |-> Undefined, asteroidsProcessed |-> 0,
   errors |-> <<>>, isRunning |-> FALSE]

Init ==
  /\ pc = "idle"
  /\ fn = "none"
  /\ args = [none |-> TRUE]
  /\ ret = [threw |-> FALSE]
  /\ ingestionStats = InitialStats

\* two evaluations of calculateProximityScore, at d1 and at d2
CallProximityScore ==
  /\ pc = "idle"
  /\ \E d1 \in Distances, d2 \in Distances :
       /\ args' = [d1 |-> d1, d2 |-> d2]
       /\ ret' = [threw |-> FALSE,
                  s1 |-> calculateProximityScore(d1),
                  s2 |-> calculateProximityScore(d2)]
  /\ fn' = "calculateProximityScore"
  /\ pc' = "done"
  /\ UNCHANGED ingestionStats

CallRiskScore ==
  /\ pc = "idle"
  /\ \E h \in BOOLEAN, dm \in DiametersM, km \in Distances :
       /\ args' = [isHazardous |-> h, diameterMax |-> dm, missDistanceKm |-> km]
       /\ ret' = [threw |-> FALSE,
                  value |-> calculateRiskScore(h, RInt(dm), km)]
  /\ fn' = "calculateRiskScore"
  /\ pc' = "done"
  /\ UNCHANGED ingestionStats

\* one call of calculateTorinoScale
CallTorinoScale ==
  /\ pc = "idle"
  /\ \E p \in Probabilities, en \in Energies :
       /\ args' = [impactProbability |-> p, energyMT |-> en]
       /\ ret' = calculateTorinoScale(p, en)
  /\ fn' = "calculateTorinoScale"
  /\ pc' = "done"
  /\ UNCHANGED ingestionStats

\* one call of calculateFromParameters
CallFromParameters ==
  /\ pc = "idle"
  /\ \E p \in Probabilities, dk \in DiametersKm, v \in Velocities, rho \in Densities :
       /\ args' = [impactProbability |-> p, diameter |-> dk, velocity |-> v,
                   density |-> rho]
       /\ ret' = calculateFromParameters(p, DFromRat(dk), DFromRat(v), Dec(rho, 0))
  /\ fn' = "calculateFromParameters"
  /\ pc' = "done"
  /\ UNCHANGED ingestionStats

\* one call of batchAssessRisk, awaited to its settlement
CallBatchAssessRisk ==
  /\ pc = "idle"
  /\ \E asteroids \in AsteroidLists :
       \E sims \in [1..Len(asteroids) -> SimOutcomes] :
         /\ \A i \in 1..Len(asteroids) : sims[i] \in SimOutcomesFor(asteroids[i])
         /\ args' = [asteroids |-> asteroids, sims |-> sims]
         /\ ret' = batchAssessRisk(asteroids, sims)
  /\ fn' = "batchAssessRisk"
  /\ pc' = "done"
  /\ UNCHANGED ingestionStats

Return ==
  /\ pc = "done"
  /\ pc' = "idle"
  /\ fn' = "none"
  /\ args' = [none |-> TRUE]
  /\ ret' = [threw |-> FALSE]
  /\ UNCHANGED ingestionStats

Next ==
  \/ CallProximityScore
  \/ CallRiskScore
  \/ CallTorinoScale
  \/ CallFromParameters
  \/ CallBatchAssessRisk
  \/ Return

Spec == Init /\ [][Next]_vars

----------------------------------------------------------------------------
(* Properties                                                              *)

InProximity == pc = "done" /\ fn = "calculateProximityScore"
InRiskScore == pc = "done" /\ fn = "calculateRiskScore"
InTorino == pc = "done" /\ fn = "calculateTorinoScale"
InFromParameters == pc = "done" /\ fn = "calculateFromParameters"

\* C1: for all distances 0 <= d1 <= d2, calculateProximityScore(d1) >=
\* calculateProximityScore(d2): the score never increases with distance,
\* inside each band and across the band boundaries.
\* Violated: the score falls to -119.996 at 4,999,900 km and is 0 again at
\* 5,000,000 km.
C1_ProximityNonIncreasing ==
  InProximity /\ args.d1 <= args.d2 => RGe(ret.s1, ret.s2)

ValidProbability(p) == RLe(RInt(0), p) /\ RLe(p, RInt(1))

\* C3: for every probability in [0,1] and every energy 0 <= energyMT < 0.001,
\* calculateTorinoScale returns level 0.
C3_SmallEnergyLevel0 ==
  InTorino /\ ValidProbability(args.impactProbability)
           /\ DGe(args.energyMT, Dec(0, 0)) /\ DLt(args.energyMT, Dec(1, -3))
    => ~ret.threw /\ ret.level = 0

\* C3 witness: a certain impact of an object just below 0.001 MT
C3_Witness ==
  InTorino /\ args.impactProbability = RInt(1) /\ args.energyMT = Dec(999, -6)
           /\ ~ret.threw /\ ret.level = 0

\* C4: for probability in [0.99, 1] and energy >= 0.001 MT the level is 10
\* when energy >= 1000 MT, 9 when 1 <= energy < 1000 MT, 8 when energy < 1 MT.
C4_CertainCollisionLevels ==
  InTorino /\ RGe(args.impactProbability, Rat(99, 100))
           /\ RLe(args.impactProbability, RInt(1))
           /\ DGe(args.energyMT, Dec(1, -3))
    => /\ ~ret.threw
       /\ ret.level = IF DGe(args.energyMT, Dec(1000, 0)) THEN 10
                      ELSE IF DGe(args.energyMT, Dec(1, 0)) THEN 9
                      ELSE 8

\* C4 witness: probability exactly 0.99 with an energy in each band, seen
\* here for the regional band; and probability 1.0 with 2000 MT is level 10
C4_Witness ==
  InTorino /\ args.impactProbability = Rat(99, 100)
           /\ args.energyMT = Dec(999, 0) /\ ~ret.threw /\ ret.level = 9

\* C5: for probability 0.01 <= p < 0.99 and energy >= 0.001 MT the level is
\* 7 when energy >= 1000 MT and p >= 0.5, 6 when energy >= 1000 MT and
\* p < 0.5, 5 when 1 <= energy < 1000 MT, 4 when energy < 1 MT.
C5_ThreateningLevels ==
  InTorino /\ RGe(args.impactProbability, Rat(1, 100))
           /\ RLt(args.impactProbability, Rat(99, 100))
           /\ DGe(args.energyMT, Dec(1, -3))
    => /\ ~ret.threw
       /\ ret.level =
            IF DGe(args.energyMT, Dec(1000, 0))
              THEN IF RGe(args.impactProbability, Rat(1, 2)) THEN 7 ELSE 6
            ELSE IF DGe(args.energyMT, Dec(1, 0)) THEN 5
            ELSE 4

\* C5 witness: probability exactly 0.5 with a global energy is level 7
C5_Witness ==
  InTorino /\ args.impactProbability = Rat(1, 2)
           /\ args.energyMT = Dec(1000, 0) /\ ~ret.threw /\ ret.level = 7

\* C6: for energy >= 0.001 MT the level is in 3..4 when 0.001 <= p < 0.01,
\* in 1..3 when 0.0001 <= p < 0.001, and in 0..1 when 0 <= p < 0.0001, where
\* it is 0 exactly when p is 0.
C6_LowProbabilityLevels ==
  InTorino /\ ValidProbability(args.impactProbability)
           /\ RLt(args.impactProbability, Rat(1, 100))
           /\ DGe(args.energyMT, Dec(1, -3))
    => /\ ~ret.threw
       /\ IF RGe(args.impactProbability, Rat(1, 1000)) THEN ret.level \in 3..4
          ELSE IF RGe(args.impactProbability, Rat(1, 10000)) THEN ret.level \in 1..3
          ELSE /\ ret.level \in 0..1
               /\ (ret.level = 0 <=> args.impactProbability = RInt(0))

\* C6 witness: probability 0 with a sizeable energy is level 0
C6_Witness ==
  InTorino /\ args.impactProbability = RInt(0)
           /\ args.energyMT = Dec(2000, 0) /\ ~ret.threw /\ ret.level = 0

\* the energy calculateFromParameters derives from its parameters
ArgsEnergyMT ==
  EnergyMT(DFromRat(args.diameter), DFromRat(args.velocity), Dec(args.density, 0))

\* C7: calculateTorinoScale with a probability below 0 or above 1, or with a
\* negative energy, throws and returns no level; calculateFromParameters
\* throws too for parameters that yield such values.
C7_OutOfRangeThrows ==
  /\ InTorino /\ (~ValidProbability(args.impactProbability)
                  \/ DLt(args.energyMT, Dec(0, 0)))
       => ret.threw /\ "level" \notin DOMAIN ret
  /\ InFromParameters /\ (~ValidProbability(args.impactProbability)
                          \/ DLt(ArgsEnergyMT, Dec(0, 0)))
       => ret.threw /\ "level" \notin DOMAIN ret

\* C7 witness: a valid probability with a negative diameter, which yields a
\* negative energy, makes calculateFromParameters throw
C7_Witness ==
  InFromParameters /\ ValidProbability(args.impactProbability)
                   /\ args.diameter = Rat(-1, 10)
                   /\ DLt(ArgsEnergyMT, Dec(0, 0)) /\ ret.threw

\* C8: for every boolean isHazardous and non-negative diameterMeters and
\* missDistanceKm, calculateRiskScore returns an integer in [0,100].
C8_RiskScoreRange ==
  InRiskScore /\ args.diameterMax >= 0 /\ args.missDistanceKm >= 0
    => /\ IsInteger(ret.value)
       /\ RLe(RInt(0), ret.value) /\ RLe(ret.value, RInt(100))

\* C8 witness: a call whose unclamped score is negative and is returned as 0
C8_Witness ==
  InRiskScore
  /\ RLt(RawRiskScore(args.isHazardous, RInt(args.diameterMax), args.missDistanceKm),
         RInt(0))
  /\ ret.value = RInt(0)

\* C9: with diameterMeters = 0 and missDistanceKm at or beyond the safe
\* threshold, calculateRiskScore returns the hazardous weight (25) when
\* isHazardous and 0 otherwise.
C9_HazardousOnlyFloor ==
  InRiskScore /\ args.diameterMax = 0 /\ args.missDistanceKm >= SAFE
    => ret.value = IF args.isHazardous THEN RInt(25) ELSE RInt(0)

\* C9 witness: calculateRiskScore(true, 0, 1e9) = 25
C9_Witness ==
  InRiskScore /\ args.isHazardous /\ args.diameterMax = 0
              /\ args.missDistanceKm = 1000000000 /\ ret.value = RInt(25)

InBatch == pc = "done" /\ fn = "batchAssessRisk"

\* the assessment of the i-th asteroid of the call fails
ItemFails(i) == assessRisk(args.asteroids[i], TRUE, 1000, args.sims[i]).threw

\* the i-th asteroid of the call has exactly one result, which carries a
\* numeric basicScore and, unless its assessment failed, the full assessment
ItemHasResult(i) ==
  /\ Cardinality({j \in 1..Len(ret.value) : ret.value[j].item = i}) = 1
  /\ \A j \in 1..Len(ret.value) :
       ret.value[j].item = i =>
         /\ "basicScore" \in DOMAIN ret.value[j]
         /\ IsInteger(ret.value[j].basicScore)
         /\ (~ItemFails(i) =>
               {"comprehensiveScore", "torinoLevel", "monteCarlo", "classification"}
                 \subseteq DOMAIN ret.value[j])

\* C10: for any input list, batchAssessRisk resolves (never rejects) with
\* exactly one result per input asteroid; a failing item, or one whose
\* orbitalElements is null, still gets a result with a basicScore, and every
\* other item gets its full assessment.
\* Violated by a list holding a null entry: the catch block reads
\* asteroid.name, throws again, and the whole batch rejects.
C10_BatchIsolatesFailures ==
  InBatch =>
    /\ ~ret.threw
    /\ Len(ret.value) = Len(args.asteroids)
    /\ \A i \in 1..Len(args.asteroids) : ItemHasResult(i)

\* what does hold: the isolation works for every list of asteroid objects,
\* including those whose assessment fails
BatchIsolatesObjectFailures ==
  InBatch /\ (\A i \in 1..Len(args.asteroids) : ~args.asteroids[i].isNull) =>
    /\ ~ret.threw
    /\ Len(ret.value) = Len(args.asteroids)
    /\ \A i \in 1..Len(args.asteroids) : ItemHasResult(i)

\* a batch of two objects, the first of which fails, resolves
BatchIsolatesWitness ==
  InBatch /\ Len(args.asteroids) = 2 /\ ~args.asteroids[1].isNull
          /\ ~args.asteroids[2].isNull /\ ItemFails(1) /\ ~ItemFails(2)
          /\ ~ret.threw

\* the key the claim sorts by: the comprehensive score, or the basic score
\* when the result has no comprehensive score
ClaimedKey(x) ==
  IF "comprehensiveScore" \in DOMAIN x THEN x.comprehensiveScore ELSE x.basicScore

\* C11: the list returned by batchAssessRisk is sorted descending by
\* comprehensiveScore, or by basicScore where the comprehensive score is
\* unavailable: for all positions i < j, key(i) >= key(j).
\* Violated: the comparator reads (comprehensiveScore || basicScore), so a
\* result whose comprehensive score is 0 is ranked by its basic score.
C11_SortedByComprehensiveScore ==
  InBatch /\ ~ret.threw =>
    \A i \in 1..Len(ret.value) : \A j \in (i + 1)..Len(ret.value) :
      RGe(ClaimedKey(ret.value[i]), ClaimedKey(ret.value[j]))

\* what does hold: the list is sorted descending by the comparator's own key
SortedByComparatorKey ==
  InBatch /\ ~ret.threw =>
    \A i \in 1..Len(ret.value) : \A j \in (i + 1)..Len(ret.value) :
      RGe(SortKey(ret.value[i]), SortKey(ret.value[j]))

----------------------------------------------------------------------------
(* monteCarloSimulator.js (src/unnamed/part_017): JavaScript numbers that   *)
(* are not rationals                                                       *)

Infinity == [inf |-> TRUE]

IsNaN(x) == "nan" \in DOMAIN x

IsInfinity(x) == "inf" \in DOMAIN x

\* a < b on rationals, NaN and +Infinity: false as soon as one side is NaN
JsLt(a, b) ==
  IF IsNaN(a) \/ IsNaN(b) THEN FALSE
  ELSE IF IsInfinity(a) THEN FALSE
  ELSE IF IsInfinity(b) THEN TRUE
  ELSE RLt(a, b)

JsGt(a, b) == JsLt(b, a)

\* a === b
JsEq(a, b) == ~IsNaN(a) /\ ~IsNaN(b) /\ a = b

\* a / b for a count a >= 0 and a rational b: 0/0 is NaN, k/0 is Infinity
JsDiv(a, b) ==
  IF b.n # 0 THEN RDiv(a, b)
  ELSE IF a.n = 0 THEN NaN
  ELSE Infinity

----------------------------------------------------------------------------
(* monteCarloSimulator.js: sampleOrbitalElements                           *)

ElementNames ==
  {"semiMajorAxis", "eccentricity", "inclination", "longitudeAscNode", "argPerihelion", "meanAnomaly"}

DEFAULT_UNCERTAINTY ==
  [semiMajorAxis |-> Rat(1, 10000), eccentricity |-> Rat(1, 100000),
   inclination |-> Rat(1, 100), longitudeAscNode |-> Rat(1, 100),
   argPerihelion |-> Rat(1, 100), meanAnomaly |-> Rat(1, 10)]

\* randomNormal(mean, stdDev) for the Box-Muller variate z it draws
randomNormal(mean, stdDev, z) == RAdd(mean, RMul(z, stdDev))

\* a plausible slip: the upper clamp sits at 1 instead of 0.999
SampleClampAtOne(elements, uncertainties, z) ==
  [semiMajorAxis |-> RAdd(elements.semiMajorAxis,
                          randomNormal(RInt(0), uncertainties.semiMajorAxis, z.semiMajorAxis)),
   eccentricity |-> RMax(RInt(0), RMin(RInt(1),
                      RAdd(elements.eccentricity,
                           randomNormal(RInt(0), uncertainties.eccentricity, z.eccentricity)))),
   inclination |-> RAdd(elements.inclination,
                        randomNormal(RInt(0), uncertainties.inclination, z.inclination)),
   longitudeAscNode |-> RAdd(elements.longitudeAscNode,
                             randomNormal(RInt(0), uncertainties.longitudeAscNode, z.longitudeAscNode)),
   argPerihelion |-> RAdd(elements.argPerihelion,
                          randomNormal(RInt(0), uncertainties.argPerihelion, z.argPerihelion)),
   meanAnomaly |-> RAdd(elements.meanAnomaly,
                        randomNormal(RInt(0), uncertainties.meanAnomaly, z.meanAnomaly)),
   epoch |-> elements.epoch]

\* z holds the six variates the six calls of randomNormal draw, in order
sampleOrbitalElements(elements, uncertainties, z) ==
  [semiMajorAxis |-> RAdd(elements.semiMajorAxis,
                          randomNormal(RInt(0), uncertainties.semiMajorAxis, z.semiMajorAxis)),
   eccentricity |-> RMax(RInt(0), RMin(Rat(999, 1000),
                      RAdd(elements.eccentricity,
                           randomNormal(RInt(0), uncertainties.eccentricity, z.eccentricity)))),
   inclination |-> RAdd(elements.inclination,
                        randomNormal(RInt(0), uncertainties.inclination, z.inclination)),
   longitudeAscNode |-> RAdd(elements.longitudeAscNode,
                             randomNormal(RInt(0), uncertainties.longitudeAscNode, z.longitudeAscNode)),
   argPerihelion |-> RAdd(elements.argPerihelion,
                          randomNormal(RInt(0), uncertainties.argPerihelion, z.argPerihelion)),
   meanAnomaly |-> RAdd(elements.meanAnomaly,
                        randomNormal(RInt(0), uncertainties.meanAnomaly, z.meanAnomaly)),
   epoch |-> elements.epoch]

----------------------------------------------------------------------------
(* monteCarloSimulator.js: runSimulation, runExtendedSimulation            *)

EARTH_CAPTURE_RADIUS_KM == 6500
MOON_DISTANCE_KM == 384400

\* the literal 50000 of the veryClose test
VERY_CLOSE_KM == 50000

\* the body of the for loop, from iteration i (0-based) on.  draws[i + 1] is
\* the distance calculateMinDistance returns for the elements sampled in
\* iteration i: a number of km fixed by the random draws, or NaN.
RECURSIVE SimulationLoop(_, _, _, _)
SimulationLoop(i, numSimulations, draws, st) ==
  IF RLt(RInt(i), numSimulations)
    THEN LET distance == draws[i + 1]
         IN  SimulationLoop(i + 1, numSimulations, draws,
               [minDistance |-> IF JsLt(distance, st.minDistance) THEN distance
                                ELSE st.minDistance,
                maxDistance |-> IF JsGt(distance, st.maxDistance) THEN distance
                                ELSE st.maxDistance,
                impacts |-> IF JsLt(distance, RInt(EARTH_CAPTURE_RADIUS_KM))
                              THEN st.impacts + 1 ELSE st.impacts,
                closeApproaches |-> IF JsLt(distance, RInt(MOON_DISTANCE_KM))
                                      THEN st.closeApproaches + 1 ELSE st.closeApproaches,
                veryClose |-> IF JsLt(distance, RInt(VERY_CLOSE_KM))
                                THEN st.veryClose + 1 ELSE st.veryClose])
  ELSE st

\* the values of the counters when the loop starts
SimulationStart ==
  [minDistance |-> Infinity, maxDistance |-> RInt(0),
   impacts |-> 0, closeApproaches |-> 0, veryClose |-> 0]

\* numSimulations is a rational; dateValid tells whether encounterDate is a
\* valid Date (toISOString throws a RangeError on an invalid one)
runSimulation(numSimulations, draws, dateValid) ==
  LET st == SimulationLoop(0, numSimulations, draws, SimulationStart)
  IN  IF ~dateValid THEN [threw |-> TRUE, error |-> "RangeError: Invalid time value"]
      ELSE [threw |-> FALSE,
            impactProbability |-> JsDiv(RInt(st.impacts), numSimulations),
            closeApproachProbability |-> JsDiv(RInt(st.closeApproaches), numSimulations),
            veryCloseProbability |-> JsDiv(RInt(st.veryClose), numSimulations),
            statistics |-> [minDistance |-> st.minDistance, maxDistance |-> st.maxDistance],
            counts |-> [impacts |-> st.impacts, closeApproaches |-> st.closeApproaches,
                        veryClose |-> st.veryClose, total |-> numSimulations]]

Null == [null |-> TRUE]

IsNull(x) == "null" \in DOMAIN x

\* bestResult?.statistics?.minDistance || Infinity
BestMinDistance(bestResult) ==
  IF IsNull(bestResult) THEN Infinity
  ELSE IF IsNaN(bestResult.statistics.minDistance) THEN Infinity
  ELSE IF IsInfinity(bestResult.statistics.minDistance) THEN Infinity
  ELSE IF bestResult.statistics.minDistance.n = 0 THEN Infinity
  ELSE bestResult.statistics.minDistance

\* the for loop over the day offsets, from offset on.  runs[offset] is the
\* sequence of distances drawn by the run of that offset; calls is the ghost
\* list of the offsets runSimulation was called for.
RECURSIVE ExtendedLoop(_, _, _, _, _)
ExtendedLoop(offset, windowDays, numSimulations, runs, st) ==
  IF offset <= windowDays
    THEN LET result == runSimulation(numSimulations, runs[offset], TRUE)
             better ==
               \/ JsGt(result.impactProbability, st.highestProbability)
               \/ /\ JsEq(result.impactProbability, st.highestProbability)
                  /\ JsLt(result.statistics.minDistance, BestMinDistance(st.bestResult))
         IN  ExtendedLoop(offset + 1, windowDays, numSimulations, runs,
               [bestResult |-> IF better THEN result ELSE st.bestResult,
                highestProbability |-> IF better THEN result.impactProbability
                                       ELSE st.highestProbability,
                calls |-> Append(st.calls, offset)])
  ELSE st

\* centerDate is a valid Date; the value is a run's result or null
runExtendedSimulation(windowDays, numSimulations, runs) ==
  LET st == ExtendedLoop(-windowDays, windowDays, numSimulations, runs,
                         [bestResult |-> Null, highestProbability |-> RInt(0),
                          calls |-> <<>>])
  IN  [threw |-> FALSE, value |-> st.bestResult, calls |-> st.calls]

----------------------------------------------------------------------------
(* Simulator: inputs and calls                                             *)

\* nominal elements: a circular orbit, an Apophis-like one, one at the upper
\* clamp and one beyond it
SampleElements ==
  {[semiMajorAxis |-> Rat(9, 10), eccentricity |-> e, inclination |-> RInt(3),
    longitudeAscNode |-> RInt(204), argPerihelion |-> RInt(126),
    meanAnomaly |-> RInt(180), epoch |-> 2451545] :
      e \in {RInt(0), Rat(191, 1000), Rat(999, 1000), Rat(6, 5)}}

SampleUncertainties ==
  {DEFAULT_UNCERTAINTY,
   [semiMajorAxis |-> Rat(1, 10), eccentricity |-> Rat(1, 2), inclination |-> RInt(1),
    longitudeAscNode |-> RInt(0), argPerihelion |-> RInt(2), meanAnomaly |-> RInt(5)]}

\* the six standard normal variates of one sample
Variates ==
  {[semiMajorAxis |-> RInt(a), eccentricity |-> RInt(e), inclination |-> RInt(i),
    longitudeAscNode |-> RInt(-1), argPerihelion |-> RInt(w), meanAnomaly |-> RInt(m)] :
      a \in {-1, 2}, e \in {-4, -1, 0, 1, 4}, i \in {-2, 1}, w \in {-3, 1}, m \in {0, 3}}

MaxSims == 2

\* numSimulations: runSimulation validates nothing, 0 and a negative count
\* included
SimCounts == {RInt(k) : k \in -1..MaxSims}

\* distances in km on both sides of, and on, the three thresholds; NaN is
\* the distance computed from elements or a date that are not numbers
SimDistances ==
  {RInt(6000), RInt(6500), RInt(30000), RInt(50000), RInt(200000),
   RInt(384400), RInt(1000000), NaN}

MaxWindow == 1

ExtSimCounts == {RInt(0), RInt(1), RInt(2)}

ExtDistances == <<RInt(3000), RInt(6000), RInt(100000), NaN>>

\* the draws of one run of the extended simulation; the result of a run does
\* not depend on the order of its draws, so one order stands for all
ExtDraws(numSimulations) ==
  {[i \in 1..numSimulations.n |-> ExtDistances[ix[i]]] :
     ix \in {f \in [1..numSimulations.n -> 1..Len(ExtDistances)] :
               \A i \in 1..(numSimulations.n - 1) : f[i] <= f[i + 1]}}

CallSampleOrbitalElements ==
  /\ pc = "idle"
  /\ \E elements \in SampleElements, uncertainties \in SampleUncertainties, z \in Variates :
       /\ args' = [elements |-> elements, uncertainties |-> uncertainties, z |-> z]
       /\ ret' = [threw |-> FALSE, value |-> sampleOrbitalElements(elements, uncertainties, z)]
  /\ fn' = "sampleOrbitalElements"
  /\ pc' = "done"
  /\ UNCHANGED ingestionStats

CallRunSimulation ==
  /\ pc = "idle"
  /\ \E numSimulations \in SimCounts, dateValid \in BOOLEAN :
       \E draws \in [1..numSimulations.n -> SimDistances] :
         /\ dateValid \/ \A i \in 1..numSimulations.n : IsNaN(draws[i])
         /\ args' = [numSimulations |-> numSimulations, draws |-> draws,
                     dateValid |-> dateValid]
         /\ ret' = runSimulation(numSimulations, draws, dateValid)
  /\ fn' = "runSimulation"
  /\ pc' = "done"
  /\ UNCHANGED ingestionStats

CallRunExtendedSimulation ==
  /\ pc = "idle"
  /\ \E windowDays \in 0..MaxWindow, numSimulations \in ExtSimCounts :
       \E runs \in [(-windowDays)..windowDays -> ExtDraws(numSimulations)] :
         /\ args' = [windowDays |-> windowDays, numSimulations |-> numSimulations,
                     runs |-> runs]
         /\ ret' = runExtendedSimulation(windowDays, numSimulations, runs)
  /\ fn' = "runExtendedSimulation"
  /\ pc' = "done"
  /\ UNCHANGED ingestionStats

\* what Math.random() can deliver to two calls of runSimulation: randomNormal
\* reads the global generator, so the samples of a call are no argument of it
RandomDraws == {RInt(6000), RInt(200000)}

\* two calls of runSimulation with the same arguments (elements, encounter
\* date, sample count, uncertainties); each call draws its own samples
CallRunSimulationTwice ==
  /\ pc = "idle"
  /\ \E numSimulations \in SimCounts :
       \E first \in [1..numSimulations.n -> RandomDraws], second \in [1..numSimulations.n -> RandomDraws] :
         /\ args' = [numSimulations |-> numSimulations, dateValid |-> TRUE]
         /\ ret' = [threw |-> FALSE,
                    first |-> runSimulation(numSimulations, first, TRUE),
                    second |-> runSimulation(numSimulations, second, TRUE)]
  /\ fn' = "runSimulationTwice"
  /\ pc' = "done"
  /\ UNCHANGED ingestionStats

SimNext ==
  \/ CallSampleOrbitalElements
  \/ CallRunSimulation
  \/ CallRunSimulationTwice
  \/ CallRunExtendedSimulation
  \/ Return

SimSpec == Init /\ [][SimNext]_vars

----------------------------------------------------------------------------
(* Simulator: properties                                                   *)

InSimulation == pc = "done" /\ fn = "runSimulation"

InExtended == pc = "done" /\ fn = "runExtendedSimulation"

InSample == pc = "done" /\ fn = "sampleOrbitalElements"

\* x is a count between 0 and the rational n
CountWithin(x, n) == x >= 0 /\ RLe(RInt(x), n)

\* x is a number between 0 and 1
IsProbability(x) ==
  ~IsNaN(x) /\ ~IsInfinity(x) /\ RLe(RInt(0), x) /\ RLe(x, RInt(1))

SimulationCountsInRange ==
  /\ CountWithin(ret.counts.impacts, args.numSimulations)
  /\ CountWithin(ret.counts.closeApproaches, args.numSimulations)
  /\ CountWithin(ret.counts.veryClose, args.numSimulations)
  /\ ret.counts.total = args.numSimulations
  /\ IsProbability(ret.impactProbability)

\* C12: after runSimulation with numSimulations = N, for every N the
\* function accepts and every sequence of draws, the three counters lie in
\* [0, N], counts.total = N and impactProbability is a number in [0,1].
\* Violated: N = 0 is accepted and impactProbability is 0/0 = NaN.
C12_SimulationCounters == InSimulation /\ ~ret.threw => SimulationCountsInRange

\* what does hold: the same for every N >= 1
SimulationCountersPositiveN ==
  InSimulation /\ ~ret.threw /\ RLe(RInt(1), args.numSimulations) => SimulationCountsInRange

\* the result of the run of day offset o
RunAt(o) == runSimulation(args.numSimulations, args.runs[o], TRUE)

\* the returned value is a run that no run beats on the probability, and
\* that no run tied with it beats on the minimum distance
ReturnsBestRun ==
  /\ ~IsNull(ret.value)
  /\ \E o \in (-args.windowDays)..args.windowDays : ret.value = RunAt(o)
  /\ \A o \in (-args.windowDays)..args.windowDays :
       /\ ~JsGt(RunAt(o).impactProbability, ret.value.impactProbability)
       /\ JsEq(RunAt(o).impactProbability, ret.value.impactProbability) =>
            ~JsLt(RunAt(o).statistics.minDistance, ret.value.statistics.minDistance)

OneRunPerOffset ==
  ret.calls = [k \in 1..(2 * args.windowDays + 1) |-> k - args.windowDays - 1]

\* C13: runExtendedSimulation calls runSimulation exactly once for each day
\* offset from -windowDays to +windowDays and returns the run with the
\* highest impactProbability, and among the runs tied on it one with the
\* smallest statistics.minDistance.
\* Violated: when no run has a minimum distance below Infinity (no sample,
\* or no distance that is a number) the function returns null.
C13_ExtendedReturnsBest == InExtended => OneRunPerOffset /\ ReturnsBestRun

\* what does hold: one run per offset, always; and the best run is returned
\* as soon as one run has a finite minimum distance
ExtendedBestWhenComparable ==
  InExtended =>
    /\ OneRunPerOffset
    /\ (\E o \in (-args.windowDays)..args.windowDays :
          ~IsInfinity(RunAt(o).statistics.minDistance)) => ReturnsBestRun

\* e + z * sigma for element f of the call
Perturbed(f) == RAdd(args.elements[f], RMul(args.z[f], args.uncertainties[f]))

\* C14: the eccentricity returned by sampleOrbitalElements lies in
\* [0, 0.999]; the clamp is the only correction: the eccentricity is the
\* perturbed value whenever that lies in the interval, every other element
\* is its nominal value plus its own draw, and epoch is returned unchanged.
C14_SampleClamp ==
  InSample =>
    /\ RLe(RInt(0), ret.value.eccentricity)
    /\ RLe(ret.value.eccentricity, Rat(999, 1000))
    /\ (RLe(RInt(0), Perturbed("eccentricity")) /\ RLe(Perturbed("eccentricity"), Rat(999, 1000)))
         => ret.value.eccentricity = Perturbed("eccentricity")
    /\ \A f \in ElementNames \ {"eccentricity"} : ret.value[f] = Perturbed(f)
    /\ ret.value.epoch = args.elements.epoch

\* a sample whose perturbed eccentricity exceeds 0.999 and is clamped, with
\* every other element moved by its draw
C14_Witness ==
  /\ InSample
  /\ RLt(Rat(999, 1000), Perturbed("eccentricity"))
  /\ ret.value.eccentricity = Rat(999, 1000)
  /\ ret.value.inclination # args.elements.inclination

----------------------------------------------------------------------------
(* ephemeris.service.js: findClosestApproach, calculateBatchPositions      *)

\* kilometres per astronomical unit, 149597870.7
AU_TO_KM == Rat(1495978707, 10)

\* the number of points of the coarse and of the refined trajectory (365
\* and 200 in the code)
CoarsePoints == 3
RefinedPoints == 2

\* a / AU_TO_KM for a distance a that is a rational, NaN or Infinity
DistanceAU(a) == IF IsNaN(a) \/ IsInfinity(a) THEN a ELSE RDiv(a, AU_TO_KM)

\* one of the two scans for (const point of trajectory): st holds minDistance
\* and closestApproach
RECURSIVE ScanTrajectory(_, _, _)
ScanTrajectory(trajectory, k, st) ==
  IF k > Len(trajectory) THEN st
  ELSE ScanTrajectory(trajectory, k + 1,
         IF JsLt(trajectory[k].distanceKm, st.minDistance)
           THEN [minDistance |-> trajectory[k].distanceKm, closestApproach |-> trajectory[k]]
           ELSE st)

\* closestApproach?.f
OptionalField(closestApproach, f) ==
  IF IsNull(closestApproach) THEN Undefined ELSE closestApproach[f]

\* coarse is the trajectory propagateTrajectory returns for the whole range,
\* refined the one it returns for the 14 days around the coarse minimum
findClosestApproach(coarse, refined) ==
  LET first == ScanTrajectory(coarse, 1, [minDistance |-> Infinity, closestApproach |-> Null])
      st == IF ~IsNull(first.closestApproach) THEN ScanTrajectory(refined, 1, first)
            ELSE first
  IN  [threw |-> FALSE,
       date |-> OptionalField(st.closestApproach, "date"),
       julianDate |-> OptionalField(st.closestApproach, "julianDate"),
       distanceKm |-> st.minDistance,
       distanceAU |-> DistanceAU(st.minDistance)]

\* Float32Array(n): n zeros
ZeroBuffer(n) == [k \in 1..n |-> RInt(0)]

\* the for loop of calculateBatchPositions from entry i (1-based) on.  An
\* entry is null, or an object whose orbitalElements is undefined, or an
\* object with elements; keplerToCartesian contains no throw and returns the
\* position entry.position for valid elements (orbitalElements.valid) and
\* NaN coordinates for elements it cannot compute with.
RECURSIVE BatchPositionsLoop(_, _, _, _)
BatchPositionsLoop(asteroids, earthPos, i, positions) ==
  IF i > Len(asteroids) THEN [threw |-> FALSE, value |-> positions]
  ELSE IF IsNull(asteroids[i])
    THEN [threw |-> TRUE, error |-> "TypeError: Cannot read properties of null"]
  ELSE IF IsUndef(asteroids[i].orbitalElements)
    THEN BatchPositionsLoop(asteroids, earthPos, i + 1, positions)
  ELSE LET pos == IF asteroids[i].orbitalElements.valid THEN asteroids[i].position
                  ELSE <<NaN, NaN, NaN>>
           rel(c) == IF IsNaN(pos[c]) THEN NaN ELSE RSub(pos[c], earthPos[c])
       IN  BatchPositionsLoop(asteroids, earthPos, i + 1,
             [k \in 1..Len(positions) |->
                IF k = 3 * (i - 1) + 1 THEN rel(1)
                ELSE IF k = 3 * (i - 1) + 2 THEN rel(2)
                ELSE IF k = 3 * (i - 1) + 3 THEN rel(3)
                ELSE positions[k]])

\* targetDate is a valid date; earthPos is Earth's position at that date
calculateBatchPositions(asteroids, earthPos) ==
  BatchPositionsLoop(asteroids, earthPos, 1, ZeroBuffer(Len(asteroids) * 3))

----------------------------------------------------------------------------
(* Ephemeris: inputs and calls                                             *)

\* distances in km of the points of a trajectory
PointDistances == {RInt(30000), RInt(400000), RInt(7000000)}

\* a trajectory of n points; point k carries its index as date and Julian
\* date.  The distances are numbers, or all NaN when the elements or the
\* dates are not numbers.
Trajectories(n, base) ==
  {[k \in 1..n |-> [date |-> base + k, julianDate |-> base + k, distanceKm |-> ds[k]]] :
     ds \in [1..n -> PointDistances] \cup {[k \in 1..n |-> NaN]}}

\* positions in AU whose coordinates 32-bit floats hold exactly
Positions == {<<Rat(3, 2), RInt(0), Rat(-1, 4)>>, <<RInt(1), RInt(0), RInt(0)>>}

EarthPositions == {<<RInt(1), RInt(0), RInt(0)>>, <<RInt(0), RInt(-1), RInt(0)>>}

Entries ==
  {Null, [orbitalElements |-> Undefined], [orbitalElements |-> [valid |-> FALSE]]}
    \cup {[orbitalElements |-> [valid |-> TRUE], position |-> p] : p \in Positions}

MaxEntries == 3

CallFindClosestApproach ==
  /\ pc = "idle"
  /\ \E coarse \in Trajectories(CoarsePoints, 0), refined \in Trajectories(RefinedPoints, 100) :
       /\ IsNaN(coarse[1].distanceKm) <=> IsNaN(refined[1].distanceKm)
       /\ args' = [coarse |-> coarse, refined |-> refined]
       /\ ret' = findClosestApproach(coarse, refined)
  /\ fn' = "findClosestApproach"
  /\ pc' = "done"
  /\ UNCHANGED ingestionStats

CallCalculateBatchPositions ==
  /\ pc = "idle"
  /\ \E n \in 0..MaxEntries, earthPos \in EarthPositions :
       \E asteroids \in [1..n -> Entries] :
         /\ args' = [asteroids |-> asteroids, earthPos |-> earthPos]
         /\ ret' = calculateBatchPositions(asteroids, earthPos)
  /\ fn' = "calculateBatchPositions"
  /\ pc' = "done"
  /\ UNCHANGED ingestionStats

\* ---- propagateTrajectory and the two passes of findClosestApproach ----
\* A Date is a whole number of seconds and a Julian date a rational number
\* of days, both counted from the same UTC midnight.  An orbit is told by
\* the distance it gives at each Julian date: a fly-by reaches its miss
\* distance missKm at the Julian date closestAt and recedes at speed km/day
\* on both sides of it; elements that are not numbers give NaN everywhere.

SecondsPerDay == 24 * 60 * 60

\* the half-width in days of the refined window: 7 * 24 * 60 * 60 * 1000 ms
REFINE_DAYS == 7

\* dateToJulianDate for a Date of whole seconds
JulianDateOf(date) == Rat(date, SecondsPerDay)

\* julianDateToDate: the time of day is floored to whole seconds
DateOfJulian(jd) == (jd.n * SecondsPerDay) \div jd.d

\* calculatePosition(orbitalElements, jd, true); heliocentric differs from
\* geocentric by Earth's position at jd and is not carried separately
calculatePosition(orbitalElements, jd) ==
  IF IsNaN(jd)
    THEN [julianDate |-> NaN, date |-> NaN, geocentric |-> NaN,
          distanceAU |-> NaN, distanceKm |-> NaN, velocity |-> NaN]
  ELSE IF ~orbitalElements.valid
    THEN [julianDate |-> jd, date |-> DateOfJulian(jd), geocentric |-> NaN,
          distanceAU |-> NaN, distanceKm |-> NaN, velocity |-> NaN]
  ELSE LET offset == RMul(orbitalElements.speed, RSub(jd, orbitalElements.closestAt))
           distanceKm == RAdd(orbitalElements.missKm,
                              IF offset.n < 0 THEN RNeg(offset) ELSE offset)
       IN  [julianDate |-> jd, date |-> DateOfJulian(jd), geocentric |-> offset,
            distanceAU |-> DistanceAU(distanceKm), distanceKm |-> distanceKm,
            velocity |-> orbitalElements.speed]

\* calculatePerturbation(asteroidPos, bodyPos, bodyMass): an acceleration
\* determined by the position of the asteroid and, through the body's
\* position, by jd; it is kept as the arguments it is computed from
calculatePerturbation(body, position, jd) ==
  [body |-> body, asteroidPos |-> position.geocentric, julianDate |-> jd]

\* a plausible slip: the accelerations are integrated into the path, which
\* moves the point
IntegratePerturbations(position, jd) ==
  [position EXCEPT !.distanceKm = IF IsNaN(@) THEN @ ELSE RAdd(@, RInt(1))]
    @@ [perturbations |-> [jupiter |-> calculatePerturbation("jupiter", position, jd),
                           moon |-> calculatePerturbation("moon", position, jd)]]

\* the body of if (applyPerturbations): position.perturbations is set and no
\* other field of position is written
ApplyPerturbations(position, jd) ==
  position @@ [perturbations |-> [jupiter |-> calculatePerturbation("jupiter", position, jd),
                                  moon |-> calculatePerturbation("moon", position, jd)]]

\* dt = (endJD - startJD) / (steps - 1) divides by zero exactly when steps
\* is 1; the loop then runs for i = 0 only, and 0 * Infinity and 0 * NaN are
\* NaN.  endDate is not before startDate.
propagateTrajectory(orbitalElements, startDate, endDate, steps, applyPerturbations) ==
  LET startJD == JulianDateOf(startDate)
      endJD == JulianDateOf(endDate)
      dt == JsDiv(RSub(endJD, startJD), RInt(steps - 1))
      jdAt(i) == IF IsNaN(dt) \/ IsInfinity(dt) THEN NaN
                 ELSE RAdd(startJD, RMul(RInt(i), dt))
  IN  [k \in 1..steps |->
         LET position == calculatePosition(orbitalElements, jdAt(k - 1))
         IN  IF applyPerturbations THEN ApplyPerturbations(position, jdAt(k - 1))
             ELSE position]

\* findClosestApproach(orbitalElements, startDate, endDate): the coarse
\* trajectory over the range, and the refined one over the 14 days around
\* the date of the coarse minimum when there is one
findClosestApproachInRange(orbitalElements, startDate, endDate) ==
  LET coarse == propagateTrajectory(orbitalElements, startDate, endDate, CoarsePoints, FALSE)
      first == ScanTrajectory(coarse, 1, [minDistance |-> Infinity, closestApproach |-> Null])
      refined ==
        IF IsNull(first.closestApproach) THEN <<>>
        ELSE propagateTrajectory(orbitalElements,
               first.closestApproach.date - REFINE_DAYS * SecondsPerDay,
               first.closestApproach.date + REFINE_DAYS * SecondsPerDay,
               RefinedPoints, FALSE)
  IN  findClosestApproach(coarse, refined)

\* fly-bys closest 5 days before the range, inside it and 5 days after it,
\* and elements that are not numbers
Orbits ==
  {[valid |-> TRUE, closestAt |-> RInt(t), speed |-> RInt(30000), missKm |-> RInt(30000)] :
     t \in {-5, 10, 25}}
    \cup {[valid |-> FALSE]}

\* search ranges in seconds: 20 days, 10 days and a single instant
SearchRanges ==
  {<<0, 20 * SecondsPerDay>>, <<10 * SecondsPerDay, 20 * SecondsPerDay>>,
   <<10 * SecondsPerDay, 10 * SecondsPerDay>>}

\* the largest steps argument of propagateTrajectory
MaxSteps == 3

CallFindClosestApproachInRange ==
  /\ pc = "idle"
  /\ \E orbitalElements \in Orbits, range \in SearchRanges :
       /\ args' = [orbitalElements |-> orbitalElements, startDate |-> range[1],
                   endDate |-> range[2]]
       /\ ret' = findClosestApproachInRange(orbitalElements, range[1], range[2])
  /\ fn' = "findClosestApproachInRange"
  /\ pc' = "done"
  /\ UNCHANGED ingestionStats

CallPropagateTrajectory ==
  /\ pc = "idle"
  /\ \E orbitalElements \in Orbits, range \in SearchRanges, steps \in 1..MaxSteps, applyPerturbations \in BOOLEAN :
       /\ args' = [orbitalElements |-> orbitalElements, startDate |-> range[1],
                   endDate |-> range[2], steps |-> steps,
                   applyPerturbations |-> applyPerturbations]
       /\ ret' = [threw |-> FALSE,
                  value |-> propagateTrajectory(orbitalElements, range[1], range[2],
                                                steps, applyPerturbations)]
  /\ fn' = "propagateTrajectory"
  /\ pc' = "done"
  /\ UNCHANGED ingestionStats

EphemerisNext ==
  \/ CallFindClosestApproach
  \/ CallFindClosestApproachInRange
  \/ CallPropagateTrajectory
  \/ CallCalculateBatchPositions
  \/ Return

EphemerisSpec == Init /\ [][EphemerisNext]_vars

----------------------------------------------------------------------------
(* Ephemeris: properties                                                   *)

InClosestApproach == pc = "done" /\ fn = "findClosestApproach"

InBatchPositions == pc = "done" /\ fn = "calculateBatchPositions"

\* no sample compares below the running minimum
NoMinimumFound ==
  \A k \in 1..Len(args.coarse) : ~JsLt(args.coarse[k].distanceKm, Infinity)

\* C15: when findClosestApproach finds no minimum, the result carries an
\* explicit not-found state and reports no sentinel distance such as
\* Infinity in distanceKm or distanceAU.
\* Violated: the result is built from minDistance, which is still Infinity.
C15_NotFoundIsExplicit ==
  InClosestApproach /\ NoMinimumFound =>
    ~IsInfinity(ret.distanceKm) /\ ~IsInfinity(ret.distanceAU)

\* what does hold: when a minimum is found, it is the smallest distance of
\* the two trajectories and carries the date of its point
ClosestApproachIsMinimum ==
  InClosestApproach /\ ~NoMinimumFound =>
    /\ \A k \in 1..Len(args.coarse) : ~JsLt(args.coarse[k].distanceKm, ret.distanceKm)
    /\ \A k \in 1..Len(args.refined) : ~JsLt(args.refined[k].distanceKm, ret.distanceKm)
    /\ \E p \in {args.coarse[k] : k \in 1..Len(args.coarse)}
               \cup {args.refined[k] : k \in 1..Len(args.refined)} :
         p.distanceKm = ret.distanceKm /\ p.date = ret.date

\* the three values of entry i (1-based) in the returned buffer
Triple(i) == <<ret.value[3 * i - 2], ret.value[3 * i - 1], ret.value[3 * i]>>

Origin == <<RInt(0), RInt(0), RInt(0)>>

\* the position the buffer must hold for entry i
ExpectedTriple(i) ==
  LET a == args.asteroids[i]
  IN  IF IsNull(a) THEN Origin
      ELSE IF IsUndef(a.orbitalElements) THEN Origin
      ELSE IF ~a.orbitalElements.valid THEN Origin
      ELSE [c \in 1..3 |-> RSub(a.position[c], args.earthPos[c])]

\* C16: calculateBatchPositions over N entries never throws and returns a
\* buffer of exactly 3N values; an entry that is missing, has no orbital
\* elements or has invalid elements is stored as (0,0,0) and every other
\* entry is computed.
\* Violated: a null entry makes the call throw (asteroid.orbitalElements is
\* read outside the try), and invalid elements are stored as NaN.
C16_BatchPositionsTotal ==
  InBatchPositions =>
    /\ ~ret.threw
    /\ Len(ret.value) = 3 * Len(args.asteroids)
    /\ \A i \in 1..Len(args.asteroids) : Triple(i) = ExpectedTriple(i)

\* what does hold: the same for lists of objects whose elements, if present,
\* are valid
BatchPositionsValidEntries ==
  InBatchPositions
    /\ (\A i \in 1..Len(args.asteroids) :
          /\ ~IsNull(args.asteroids[i])
          /\ IsUndef(args.asteroids[i].orbitalElements)
               \/ args.asteroids[i].orbitalElements.valid)
    => /\ ~ret.threw
       /\ Len(ret.value) = 3 * Len(args.asteroids)
       /\ \A i \in 1..Len(args.asteroids) : Triple(i) = ExpectedTriple(i)

----------------------------------------------------------------------------
(* keplerianElements.js (src/unnamed/part_017): solveKeplerEquation,       *)
(* keplerToCartesian.  The Newton-Raphson loop runs one iteration per      *)
(* step.  While it runs pc = "loop" and ret holds the loop's variables:    *)
(* i, the loop counter, and guess, the initial value of E.  The value of E *)
(* is fixed by floating-point trigonometry and is not represented; a step  *)
(* is told by whether its |dE| is below the tolerance.                      *)

\* the default value of maxIterations
DEFAULT_MAX_ITERATIONS == 50

\* e < 0.8 ? M : Math.PI
InitialGuess(e) == IF RLt(e, Rat(4, 5)) THEN "M" ELSE "PI"

\* a plausible slip: the loop runs while i <= maxIterations
LoopGuardInclusive(i, maxIterations) == i <= maxIterations

\* the loop test i < maxIterations
LoopGuard(i, maxIterations) == i < maxIterations

\* whether Math.abs(dE) < tolerance can hold, and can fail, in the step at
\* counter i: with e = 0 the first dE is (M - 0 - M) / 1 = 0; otherwise the
\* quotient is any number, or NaN when e >= 1 lets the divisor vanish
StepOutcomes(e, i) == IF e.n = 0 /\ i = 0 THEN {TRUE} ELSE BOOLEAN

\* what the caller receives once solveKeplerEquation has returned: the
\* anomaly itself, or from keplerToCartesian the position computed from it.
\* No statement of either function throws; for e > 1 Math.sqrt(1 - e * e)
\* is NaN and so are the coordinates, for e = 1 the radius is 0 or 0/0.
KeplerResult(f, e, i, converged) ==
  IF f = "solveKeplerEquation"
    THEN {[threw |-> FALSE, i |-> i, converged |-> converged, warned |-> ~converged]}
  ELSE {[threw |-> FALSE, i |-> i, converged |-> converged, warned |-> ~converged,
         position |-> [finite |-> b]] :
           b \in IF RLt(e, RInt(1)) THEN {TRUE} ELSE IF e = RInt(1) THEN BOOLEAN ELSE {FALSE}}

\* eccentricities on both sides of 0.8 and of 1
Eccentricities == {RInt(0), Rat(1, 2), Rat(4, 5), Rat(99, 100), RInt(1), Rat(3, 2)}

MaxIter == 4

IterationLimits == 0..MaxIter \cup {DEFAULT_MAX_ITERATIONS}

CallSolveKeplerEquation ==
  /\ pc = "idle"
  /\ \E e \in Eccentricities, maxIterations \in IterationLimits :
       /\ args' = [e |-> e, maxIterations |-> maxIterations]
       /\ ret' = [threw |-> FALSE, i |-> 0, guess |-> InitialGuess(e)]
  /\ fn' = "solveKeplerEquation"
  /\ pc' = "loop"
  /\ UNCHANGED ingestionStats

\* keplerToCartesian calls solveKeplerEquation(M, e) with the defaults
CallKeplerToCartesian ==
  /\ pc = "idle"
  /\ \E e \in Eccentricities :
       /\ args' = [e |-> e, maxIterations |-> DEFAULT_MAX_ITERATIONS]
       /\ ret' = [threw |-> FALSE, i |-> 0, guess |-> InitialGuess(e)]
  /\ fn' = "keplerToCartesian"
  /\ pc' = "loop"
  /\ UNCHANGED ingestionStats

\* one iteration: dE is computed, E -= dE, and the function returns if
\* |dE| < tolerance; otherwise i++
NewtonStep ==
  /\ pc = "loop"
  /\ LoopGuard(ret.i, args.maxIterations)
  /\ \E small \in StepOutcomes(args.e, ret.i) :
       IF small
         THEN /\ ret' \in KeplerResult(fn, args.e, ret.i + 1, TRUE)
              /\ pc' = "done"
         ELSE /\ ret' = [ret EXCEPT !.i = ret.i + 1]
              /\ pc' = "loop"
  /\ UNCHANGED <<fn, args>>
  /\ UNCHANGED ingestionStats

\* the loop test fails: console.warn, return E
LoopExit ==
  /\ pc = "loop"
  /\ ~LoopGuard(ret.i, args.maxIterations)
  /\ ret' \in KeplerResult(fn, args.e, ret.i, FALSE)
  /\ pc' = "done"
  /\ UNCHANGED <<fn, args>>
  /\ UNCHANGED ingestionStats

KeplerNext ==
  \/ CallSolveKeplerEquation
  \/ CallKeplerToCartesian
  \/ NewtonStep
  \/ LoopExit
  \/ Return

\* a call that has started runs on: the loop is sequential code
KeplerSpec ==
  Init /\ [][KeplerNext]_vars /\ WF_vars(NewtonStep) /\ WF_vars(LoopExit)

----------------------------------------------------------------------------
(* Kepler solver: properties                                               *)

InSolveKepler == fn = "solveKeplerEquation" /\ pc \in {"loop", "done"}

InKeplerToCartesian == fn = "keplerToCartesian" /\ pc \in {"loop", "done"}

\* C17: solveKeplerEquation given e >= 1, and keplerToCartesian given
\* elements with eccentricity >= 1, end in a validation error surfaced to the
\* caller instead of returning an anomaly or a position.
\* Violated: neither function tests e; both return.
C17_EccentricityValidated ==
  (InSolveKepler \/ InKeplerToCartesian) /\ pc = "done" /\ RGe(args.e, RInt(1))
    => ret.threw

EllipticCall == InSolveKepler /\ RLe(RInt(0), args.e) /\ RLt(args.e, RInt(1))

\* the solver has run at most maxIterations steps and has not thrown; once
\* returned, either a step was below the tolerance and it returned at that
\* step without warning, or it ran all maxIterations steps and warned
SolverWithinLimit ==
  EllipticCall =>
    /\ ret.i <= args.maxIterations
    /\ ~ret.threw
    /\ pc = "done" =>
         \/ ret.converged /\ ~ret.warned /\ ret.i >= 1
         \/ ~ret.converged /\ ret.warned /\ ret.i = args.maxIterations

\* C18: for any M and any e in [0,1), solveKeplerEquation terminates after
\* at most maxIterations Newton-Raphson steps: it returns at the step whose
\* size falls below the tolerance, otherwise after the last step with a
\* warning, and never throws.
C18_SolverTerminates ==
  /\ []SolverWithinLimit
  /\ (EllipticCall /\ pc = "loop") ~> (EllipticCall /\ pc = "done")

\* a call with 0 < e < 1 that never got below the tolerance and returned
\* with the warning after all its steps
C18_Witness ==
  /\ EllipticCall
  /\ pc = "done"
  /\ args.e.n # 0
  /\ args.maxIterations >= 2
  /\ ret.warned
  /\ ret.i = args.maxIterations

----------------------------------------------------------------------------
(* keplerianElements.js (src/unnamed/part_017): dateToJulianDate,          *)
(* julianDateToDate.                                                       *)
(*                                                                         *)
(* A Date is [year, month (1..12), day, seconds (of the day), ms].  A      *)
(* Julian date between 2^21 and 2^22 is a binary64 number whose unit in    *)
(* the last place is 2^-31 day; it is [whole |-> w, frac |-> k], standing  *)
(* for w + k / 2^31 with 0 <= k < 2^31.  Of the operations of the two      *)
(* functions only the addition of dayFraction to the day count rounds, to  *)
(* the nearest multiple of 2^-31; the day fraction of a whole number of    *)
(* seconds never lies halfway between two multiples, so the rounding of    *)
(* dayFraction itself (relative error 2^-53) cannot change the result.     *)
(* Every later sum, difference and product is exact in binary64, and the   *)
(* products by 365.25 and 30.6001 stay clear of the integers their floor   *)
(* is taken of.  The formulas below split their operands so that no        *)
(* intermediate exceeds 2^31.                                              *)

\* half a day in units of 2^-31 day
HalfDay == 2 ^ 30

\* (h + min / 60 + s / 3600) / 24 for the time of day T = 3600 h + 60 min + s,
\* rounded to the nearest multiple of 2^-31 day: the nearest integer to
\* T * 2^31 / 86400 = T * 2^24 / 675
DayFractionUnits(T) ==
  LET a == T \div 675
      b == T % 675
      c == (b * 4096) \div 675
      r == (b * 4096) % 675
  IN  a * (2 ^ 24) + c * 4096 + (2 * r * 4096 + 675) \div 1350

\* a plausible slip: the Gregorian correction B is left out
NoCenturyCorrection(year) == 0

\* A = Math.floor(year / 100); B = 2 - A + Math.floor(A / 4)
CenturyCorrection(year) ==
  LET A == year \div 100
  IN  2 - A + A \div 4

\* date.getUTCSeconds() ignores the milliseconds of the date
dateToJulianDate(date) ==
  LET m == date.month
      year == IF m <= 2 THEN date.year - 1 ELSE date.year
      month == IF m <= 2 THEN m + 12 ELSE m
      B == CenturyCorrection(year)
      dayFraction == DayFractionUnits(date.seconds)
      \* Math.floor(365.25 * (year + 4716)) + Math.floor(30.6001 * (month + 1)) + d + B
      days == (1461 * (year + 4716)) \div 4 + (306001 * (month + 1)) \div 10000
                + date.day + B
  IN  \* days + dayFraction - 1524.5
      IF dayFraction >= HalfDay
        THEN [whole |-> days - 1524, frac |-> dayFraction - HalfDay]
        ELSE [whole |-> days - 1525, frac |-> dayFraction + HalfDay]

\* hours, minutes and seconds of the day fraction F (in units of 2^-31 day):
\* the three floors of julianDateToDate
TimeOfDay(F) ==
  LET hours == 3 * (F \div (2 ^ 28)) + (3 * (F % (2 ^ 28))) \div (2 ^ 28)
      \* dayFrac * 24 - hours, in units of 2^-28 hour
      r1 == (3 * (F % (2 ^ 28))) % (2 ^ 28)
      minutes == 15 * (r1 \div (2 ^ 26)) + (15 * (r1 % (2 ^ 26))) \div (2 ^ 26)
      \* (dayFrac * 24 - hours) * 60 - minutes, in units of 2^-26 minute
      r2 == (15 * (r1 % (2 ^ 26))) % (2 ^ 26)
      seconds == 15 * (r2 \div (2 ^ 24)) + (15 * (r2 % (2 ^ 24))) \div (2 ^ 24)
  IN  [hours |-> hours, minutes |-> minutes, seconds |-> seconds]

julianDateToDate(jd) ==
  LET \* Z = Math.floor(jd + 0.5); F = jd + 0.5 - Z
      Z == IF jd.frac >= HalfDay THEN jd.whole + 1 ELSE jd.whole
      F == IF jd.frac >= HalfDay THEN jd.frac - HalfDay ELSE jd.frac + HalfDay
      alpha == (4 * Z - 7468865) \div 146097
      A == IF Z < 2299161 THEN Z ELSE Z + 1 + alpha - alpha \div 4
      B == A + 1524
      C == (20 * B - 2442) \div 7305
      D == (1461 * C) \div 4
      E == (10000 * (B - D)) \div 306001
      dayInt == B - D - (306001 * E) \div 10000
      month == IF E < 14 THEN E - 1 ELSE E - 13
      year == IF month > 2 THEN C - 4716 ELSE C - 4715
      t == TimeOfDay(F)
  IN  \* new Date(Date.UTC(year, month - 1, dayInt, hours, minutes, seconds))
      [year |-> year, month |-> month, day |-> dayInt,
       seconds |-> 3600 * t.hours + 60 * t.minutes + t.seconds, ms |-> 0]

\* the day number of a calendar date (days since 1970-01-01), as Date.UTC
\* and the getUTC accessors relate dates to time values
DayNumber(date) ==
  LET y == IF date.month <= 2 THEN date.year - 1 ELSE date.year
      era == y \div 400
      yoe == y - era * 400
      mp == IF date.month > 2 THEN date.month - 3 ELSE date.month + 9
      doy == (153 * mp + 2) \div 5 + date.day - 1
      doe == yoe * 365 + yoe \div 4 - yoe \div 100 + doy
  IN  era * 146097 + doe - 719468

\* b.getTime() - a.getTime() in milliseconds, for dates less than 20 days apart
MsBetween(a, b) ==
  ((DayNumber(b) - DayNumber(a)) * 86400 + (b.seconds - a.seconds)) * 1000 + (b.ms - a.ms)

----------------------------------------------------------------------------
(* Julian dates: inputs and calls                                          *)

Years == {1900, 1999, 2000, 2024, 2100, 2200}

\* times of day in seconds: midnight, noon, the last second, and values on
\* and off the multiples of 675 s that 2^-31 day represents exactly
TimesOfDay == {0, 1, 59, 674, 675, 3600, 43199, 43200, 43201, 86399}

Milliseconds == {0, 500, 999}

Dates ==
  {[year |-> y, month |-> m, day |-> d, seconds |-> T, ms |-> ms] :
     y \in Years, m \in 1..12, d \in {1, 15, 28}, T \in TimesOfDay, ms \in Milliseconds}
  \cup {[year |-> y, month |-> 2, day |-> 29, seconds |-> T, ms |-> ms] :
          y \in {2000, 2024}, T \in TimesOfDay, ms \in Milliseconds}
  \cup {[year |-> y, month |-> 12, day |-> 31, seconds |-> T, ms |-> ms] :
          y \in Years, T \in TimesOfDay, ms \in Milliseconds}

CallDateToJulianDate ==
  /\ pc = "idle"
  /\ \E date \in Dates :
       /\ args' = [date |-> date]
       /\ ret' = [threw |-> FALSE, value |-> dateToJulianDate(date)]
  /\ fn' = "dateToJulianDate"
  /\ pc' = "done"
  /\ UNCHANGED ingestionStats

\* julianDateToDate(dateToJulianDate(date))
CallRoundTrip ==
  /\ pc = "idle"
  /\ \E date \in Dates :
       /\ args' = [date |-> date]
       /\ ret' = [threw |-> FALSE, value |-> julianDateToDate(dateToJulianDate(date))]
  /\ fn' = "julianDateToDate"
  /\ pc' = "done"
  /\ UNCHANGED ingestionStats

DateNext ==
  \/ CallDateToJulianDate
  \/ CallRoundTrip
  \/ Return

DateSpec == Init /\ [][DateNext]_vars

----------------------------------------------------------------------------
(* Julian dates: properties                                                *)

InDateToJulianDate == pc = "done" /\ fn = "dateToJulianDate"

InRoundTrip == pc = "done" /\ fn = "julianDateToDate"

\* C19: for every UTC instant t of the years 1900 through 2200,
\* julianDateToDate(dateToJulianDate(t)) differs from t by at most 1 second.
\* Violated: the milliseconds are dropped, and the time of day is then
\* rounded to 2^-31 day and floored to whole seconds.
C19_RoundTripWithinSecond ==
  InRoundTrip => Abs(MsBetween(args.date, ret.value)) <= 1000

\* what does hold: the result is never later than t, is less than 2 seconds
\* earlier, and is within 1 second of t for instants of whole seconds
RoundTripWithinTwoSeconds ==
  InRoundTrip =>
    /\ MsBetween(args.date, ret.value) <= 0
    /\ MsBetween(args.date, ret.value) > -2000
    /\ args.date.ms = 0 => MsBetween(args.date, ret.value) >= -1000

J2000 == [year |-> 2000, month |-> 1, day |-> 1, seconds |-> 43200, ms |-> 0]

\* C20: dateToJulianDate applied to 2000-01-01T12:00:00Z returns exactly
\* 2451545.0.
C20_J2000Exact ==
  InDateToJulianDate /\ args.date = J2000 => ret.value = [whole |-> 2451545, frac |-> 0]

\* the call for 2000-01-01T12:00:00Z has returned day 2451545
C20_Witness ==
  InDateToJulianDate /\ args.date = J2000 /\ ret.value.whole = 2451545

----------------------------------------------------------------------------
\* C21: two runs of runSimulation with identical elements, encounter date,
\* sample count and uncertainties return identical counts, probabilities and
\* distance statistics.  runSimulation takes no randomness source or seed:
\* randomNormal calls Math.random(), so the two results may differ.
InRunTwice == pc = "done" /\ fn = "runSimulationTwice"

C21_Deterministic == InRunTwice => ret.first = ret.second

----------------------------------------------------------------------------
(* riskEngine.js: assessRisk, classifyRisk and input validation            *)

\* part_017 estimateImpactEnergy(diameter, velocity, density = 2500): the
\* arithmetic of EnergyMT with no test of its arguments; nothing in it throws
estimateImpactEnergy(diameter, velocity, density) ==
  [threw |-> FALSE, energyMegatons |-> EnergyMT(diameter, velocity, density)]

\* comprehensive scores on both sides of 20, 40 and 70
Scores == {RInt(0), RInt(19), RInt(20), RInt(39), RInt(40), RInt(69), RInt(70), RInt(100)}

TorinoLevels == 0..10

\* diameters in metres and miss distances in km of both signs
SignedDiametersM == {-100, 0, 340}

SignedDistances == {-1000, 0, 300000}

\* assessRisk({asteroid, encounterDate, numSimulations: 1000}): sim is what
\* runSimulation does if it is called
CallAssessRisk ==
  /\ pc = "idle"
  /\ \E asteroid \in Asteroids, hasEncounterDate \in BOOLEAN, sim \in SimOutcomes :
       /\ args' = [asteroid |-> asteroid, hasEncounterDate |-> hasEncounterDate,
                   sim |-> sim]
       /\ ret' = assessRisk(asteroid, hasEncounterDate, 1000, sim)
  /\ fn' = "assessRisk"
  /\ pc' = "done"
  /\ UNCHANGED ingestionStats

CallClassifyRisk ==
  /\ pc = "idle"
  /\ \E score \in Scores, torinoLevel \in TorinoLevels :
       /\ args' = [score |-> score, torinoLevel |-> torinoLevel]
       /\ ret' = [threw |-> FALSE, label |-> classifyRisk(score, torinoLevel)]
  /\ fn' = "classifyRisk"
  /\ pc' = "done"
  /\ UNCHANGED ingestionStats

\* calculateRiskScore with arguments of either sign
CallRiskScoreSigned ==
  /\ pc = "idle"
  /\ \E h \in BOOLEAN, dm \in SignedDiametersM, km \in SignedDistances :
       /\ args' = [isHazardous |-> h, diameterMax |-> dm, missDistanceKm |-> km]
       /\ ret' = [threw |-> FALSE, value |-> calculateRiskScore(h, RInt(dm), km)]
  /\ fn' = "calculateRiskScoreSigned"
  /\ pc' = "done"
  /\ UNCHANGED ingestionStats

CallEstimateImpactEnergy ==
  /\ pc = "idle"
  /\ \E d \in DiametersKm, v \in Velocities :
       /\ args' = [diameter |-> d, velocity |-> v]
       /\ ret' = estimateImpactEnergy(DFromRat(d), DFromRat(v), Dec(2500, 0))
  /\ fn' = "estimateImpactEnergy"
  /\ pc' = "done"
  /\ UNCHANGED ingestionStats

AssessNext ==
  \/ CallAssessRisk
  \/ CallClassifyRisk
  \/ CallRiskScoreSigned
  \/ CallEstimateImpactEnergy
  \/ Return

AssessSpec == Init /\ [][AssessNext]_vars

InAssessRisk == pc = "done" /\ fn = "assessRisk" /\ ~args.asteroid.isNull

\* const estimatedDiameter = diameter || estimateDiameter(absoluteMagnitude)
EstimatedDiameter(asteroid) ==
  IF Falsy(asteroid.diameter) THEN estimateDiameter(asteroid.absoluteMagnitude)
  ELSE asteroid.diameter

\* relativeVelocity = 15 in the destructuring of asteroid
RelativeVelocity(asteroid) ==
  IF IsUndef(asteroid.relativeVelocity) THEN RInt(15) ELSE asteroid.relativeVelocity

\* the Torino classification of the asteroid with impact probability 0
TorinoAtZero(asteroid) ==
  calculateFromParameters(RInt(0), DFromRat(EstimatedDiameter(asteroid)),
                          DFromRat(RelativeVelocity(asteroid)), Dec(2500, 0))

ElementsAndDate == args.asteroid.orbitalElements /\ args.hasEncounterDate

NoSimulationResult == ~ElementsAndDate \/ args.sim.threw

InClassifyRisk == pc = "done" /\ fn = "classifyRisk"

\* the label the Torino level alone stands for (levels 1..10)
LabelOfLevel(torinoLevel) ==
  IF torinoLevel >= 8 THEN "CRITICAL"
  ELSE IF torinoLevel >= 5 THEN "SEVERE"
  ELSE IF torinoLevel >= 3 THEN "HIGH"
  ELSE IF torinoLevel = 2 THEN "ELEVATED"
  ELSE "MODERATE"

\* the label the comprehensive score alone stands for
LabelOfScore(score) ==
  IF RGe(score, RInt(70)) THEN "ELEVATED"
  ELSE IF RGe(score, RInt(40)) THEN "MODERATE"
  ELSE IF RGe(score, RInt(20)) THEN "LOW"
  ELSE "MINIMAL"

\* C23: classifyRisk takes the label from the Torino level whenever the level
\* is not 0, the same for every score, and from the comprehensive score only
\* when the level is 0.
C23_LabelFromTorinoLevel ==
  InClassifyRisk =>
    ret.label = IF args.torinoLevel # 0 THEN LabelOfLevel(args.torinoLevel)
                ELSE LabelOfScore(args.score)

\* what the code does: the label is the more severe of the two
Severity(label) ==
  CASE label = "MINIMAL" -> 0
    [] label = "LOW" -> 1
    [] label = "MODERATE" -> 2
    [] label = "ELEVATED" -> 3
    [] label = "HIGH" -> 4
    [] label = "SEVERE" -> 5
    [] label = "CRITICAL" -> 6

ClassifyRiskTakesMoreSevere ==
  InClassifyRisk =>
    LET byScore == LabelOfScore(args.score)
        byLevel == IF args.torinoLevel = 0 THEN "MINIMAL"
                   ELSE LabelOfLevel(args.torinoLevel)
    IN  ret.label = IF Severity(byScore) >= Severity(byLevel) THEN byScore
                    ELSE byLevel

InRiskScoreSigned == pc = "done" /\ fn = "calculateRiskScoreSigned"

InEstimateImpactEnergy == pc = "done" /\ fn = "estimateImpactEnergy"

\* C24: calculateRiskScore with a negative diameterMeters or a negative
\* missDistanceKm, and estimateImpactEnergy with a negative diameter, end in
\* a validation error; they never return a number computed from the
\* negative input.
C24_NegativeInputsRejected ==
  /\ InRiskScoreSigned /\ (args.diameterMax < 0 \/ args.missDistanceKm < 0) => ret.threw
  /\ InEstimateImpactEnergy /\ RLt(args.diameter, RInt(0)) => ret.threw

----------------------------------------------------------------------------
(* Ephemeris: trajectories over a date range                               *)

InClosestApproachInRange == pc = "done" /\ fn = "findClosestApproachInRange"

InPropagateTrajectory == pc = "done" /\ fn = "propagateTrajectory"

\* closestApproach is not null
ApproachFound == ~IsUndef(ret.julianDate)

\* C25: the closest approach findClosestApproach returns has its date and
\* its julianDate inside the requested range [startDate, endDate].
\* Violated: the refined window reaches 7 days beyond a coarse minimum at
\* either end of the range, and a refined point out there may be closer.
C25_ClosestApproachInsideRange ==
  InClosestApproachInRange /\ ApproachFound =>
    /\ args.startDate <= ret.date
    /\ ret.date <= args.endDate
    /\ RLe(JulianDateOf(args.startDate), ret.julianDate)
    /\ RLe(ret.julianDate, JulianDateOf(args.endDate))

\* what does hold: the date is at most 7 days outside the range
ClosestApproachWithinRefinedWindow ==
  InClosestApproachInRange /\ ApproachFound =>
    /\ args.startDate - REFINE_DAYS * SecondsPerDay <= ret.date
    /\ ret.date <= args.endDate + REFINE_DAYS * SecondsPerDay

\* the Julian dates of the returned points are numbers, start at JD(start),
\* end at JD(end) and are equally spaced
UniformSampling ==
  LET t == ret.value
      n == Len(t)
  IN  /\ n = args.steps
      /\ \A k \in 1..n : ~IsNaN(t[k].julianDate)
      /\ t[1].julianDate = JulianDateOf(args.startDate)
      /\ t[n].julianDate = JulianDateOf(args.endDate)
      /\ \A k \in 2..(n - 1) :
           RSub(t[k + 1].julianDate, t[k].julianDate)
             = RSub(t[k].julianDate, t[k - 1].julianDate)

\* C26: propagateTrajectory returns exactly `steps` points for every
\* steps >= 1, uniformly spaced in Julian date from JD(start) to JD(end),
\* each with a julianDate that is a number.
\* Violated: for steps = 1 the step is a division by zero and the single
\* point has julianDate NaN.
C26_UniformSampling == InPropagateTrajectory => UniformSampling

\* what does hold: the same for steps >= 2
UniformSamplingFromTwoSteps ==
  InPropagateTrajectory /\ args.steps >= 2 => UniformSampling

\* the fields of a trajectory point other than the perturbations annotation
PointFields == {"julianDate", "date", "geocentric", "distanceAU", "distanceKm", "velocity"}

Unperturbed ==
  propagateTrajectory(args.orbitalElements, args.startDate, args.endDate,
                      args.steps, FALSE)

----------------------------------------------------------------------------
\* C28: after every runSimulation, counts.impacts <= counts.veryClose <=
\* counts.closeApproaches <= counts.total.
\* Violated: numSimulations is not validated, and for a negative sample
\* count the loop never runs while counts.total is that negative number.
C28_CountersNested ==
  InSimulation /\ ~ret.threw =>
    /\ ret.counts.impacts <= ret.counts.veryClose
    /\ ret.counts.veryClose <= ret.counts.closeApproaches
    /\ RLe(RInt(ret.counts.closeApproaches), ret.counts.total)

\* what does hold: the three thresholds nest for every sample count, and the
\* largest counter is at most the total for a sample count of 0 or more
CountersNestedNonNegativeN ==
  InSimulation /\ ~ret.threw =>
    /\ ret.counts.impacts <= ret.counts.veryClose
    /\ ret.counts.veryClose <= ret.counts.closeApproaches
    /\ RLe(RInt(0), args.numSimulations) =>
         RLe(RInt(ret.counts.closeApproaches), ret.counts.total)

----------------------------------------------------------------------------
(* Torino scale: monotonicity                                              *)

\* three calls of calculateTorinoScale: at (p1, e1), with the probability
\* raised to p2 and with the energy raised to e2
CallTorinoScaleRaised ==
  /\ pc = "idle"
  /\ \E p1 \in Probabilities, p2 \in Probabilities, e1 \in Energies, e2 \in Energies :
       /\ RLe(p1, p2)
       /\ ~DLt(e2, e1)
       /\ args' = [p1 |-> p1, p2 |-> p2, e1 |-> e1, e2 |-> e2]
       /\ ret' = [threw |-> FALSE,
                  base |-> calculateTorinoScale(p1, e1),
                  moreProbable |-> calculateTorinoScale(p2, e1),
                  moreEnergetic |-> calculateTorinoScale(p1, e2)]
  /\ fn' = "calculateTorinoScaleRaised"
  /\ pc' = "done"
  /\ UNCHANGED ingestionStats

TorinoNext ==
  \/ CallTorinoScale
  \/ CallTorinoScaleRaised
  \/ Return

TorinoSpec == Init /\ [][TorinoNext]_vars

InTorinoRaised == pc = "done" /\ fn = "calculateTorinoScaleRaised"

\* C29: over valid inputs calculateTorinoScale is monotone: with the energy
\* fixed a higher probability never gives a lower level, and with the
\* probability fixed a higher energy never gives a lower level.
C29_TorinoMonotone ==
  InTorinoRaised /\ ~ret.base.threw =>
    /\ ~ret.moreProbable.threw => ret.base.level <= ret.moreProbable.level
    /\ ~ret.moreEnergetic.threw => ret.base.level <= ret.moreEnergetic.level

\* level 3 at p = 0.005 and 0.5 MT; 4 with p raised to 0.25 and 4 with the
\* energy raised to 500 MT
C29_Witness ==
  /\ InTorinoRaised
  /\ args.p1 = Rat(5, 1000) /\ args.e1 = Dec(5, -1)
  /\ args.p2 = Rat(1, 4) /\ args.e2 = Dec(500, 0)
  /\ ret.base.level = 3
  /\ ret.moreProbable.level = 4
  /\ ret.moreEnergetic.level = 4

----------------------------------------------------------------------------
(* dataIngestion.service.js (src/unnamed/part_016): fullNEOSync, called    *)
(* by the 02:00 cron job and by runJobNow of cronJobs.js.  Each caller's   *)
(* call is a sequence of steps that ends at an await; between two awaits   *)
(* nothing else runs.  Here pc, args and ret are functions of the caller:  *)
(* pc[c] is where c's call is suspended, args[c].remaining the number of   *)
(* catalog entries its loop still has to process, ret[c] what it returned. *)

Callers == {"cron", "manual"}

\* the largest catalog fetchNEOCatalog delivers
MaxCatalog == 2

\* a plausible slip: the catch block forgets to clear the flag
SyncFailedKeepsFlag(stats) == stats

\* catch (error) { ingestionStats.isRunning = false; ... throw error }
SyncFailed(stats) == [stats EXCEPT !.isRunning = FALSE]

SyncInit ==
  /\ pc = [c \in Callers |-> "idle"]
  /\ fn = "fullNEOSync"
  /\ args = [c \in Callers |-> [remaining |-> 0]]
  /\ ret = [c \in Callers |-> [threw |-> FALSE, status |-> "none"]]
  /\ ingestionStats = InitialStats

\* the call up to its first await: the test of isRunning and, when it is
\* clear, the three assignments and the call of fetchNEOCatalog
CallFullNEOSync ==
  \E c \in Callers :
    /\ pc[c] = "idle"
    /\ IF ingestionStats.isRunning
         THEN /\ ret' = [ret EXCEPT ![c] = [threw |-> FALSE, status |-> "skipped",
                                            reason |-> "already_running"]]
              /\ pc' = [pc EXCEPT ![c] = "done"]
              /\ UNCHANGED ingestionStats
         ELSE /\ ingestionStats' = [ingestionStats EXCEPT !.isRunning = TRUE,
                                                          !.asteroidsProcessed = 0,
                                                          !.errors = <<>>]
              /\ pc' = [pc EXCEPT ![c] = "fetch"]
              /\ UNCHANGED ret
    /\ UNCHANGED <<fn, args>>

\* await fetchNEOCatalog resolves with a catalog of n entries
FetchResolves ==
  \E c \in Callers, n \in 0..MaxCatalog :
    /\ pc[c] = "fetch"
    /\ args' = [args EXCEPT ![c] = [remaining |-> n, total |-> n]]
    /\ pc' = [pc EXCEPT ![c] = "batch"]
    /\ UNCHANGED <<fn, ret, ingestionStats>>

\* await fetchNEOCatalog rejects: the catch block runs and rethrows
FetchRejects ==
  \E c \in Callers :
    /\ pc[c] = "fetch"
    /\ ingestionStats' = SyncFailed(ingestionStats)
    /\ ret' = [ret EXCEPT ![c] = [threw |-> TRUE, error |-> "fetchNEOCatalog failed"]]
    /\ pc' = [pc EXCEPT ![c] = "done"]
    /\ UNCHANGED <<fn, args>>

\* the callback of one catalog entry ends in its try
ItemProcessed ==
  \E c \in Callers :
    /\ pc[c] = "batch"
    /\ args[c].remaining > 0
    /\ ingestionStats' = [ingestionStats EXCEPT !.asteroidsProcessed = @ + 1]
    /\ args' = [args EXCEPT ![c].remaining = @ - 1]
    /\ UNCHANGED <<pc, fn, ret>>

\* the callback of one catalog entry ends in its catch
ItemFailed ==
  \E c \in Callers :
    /\ pc[c] = "batch"
    /\ args[c].remaining > 0
    /\ ingestionStats' =
         [ingestionStats EXCEPT !.errors = Append(@, [spkId |-> args[c].remaining,
                                                      error |-> "save failed"])]
    /\ args' = [args EXCEPT ![c].remaining = @ - 1]
    /\ UNCHANGED <<pc, fn, ret>>

\* the loop has ended and await redisClient.delPattern resolves
CacheCleared ==
  \E c \in Callers :
    /\ pc[c] = "batch"
    /\ args[c].remaining = 0
    /\ ingestionStats' = [ingestionStats EXCEPT !.lastFullSync = [date |-> TRUE],
                                                !.isRunning = FALSE]
    /\ ret' = [ret EXCEPT ![c] = [threw |-> FALSE, status |-> "complete",
                                  errors |-> Len(ingestionStats.errors),
                                  total |-> args[c].total]]
    /\ pc' = [pc EXCEPT ![c] = "done"]
    /\ UNCHANGED <<fn, args>>

\* await redisClient.delPattern rejects: the catch block runs and rethrows
CacheClearRejects ==
  \E c \in Callers :
    /\ pc[c] = "batch"
    /\ args[c].remaining = 0
    /\ ingestionStats' = SyncFailed(ingestionStats)
    /\ ret' = [ret EXCEPT ![c] = [threw |-> TRUE, error |-> "delPattern failed"]]
    /\ pc' = [pc EXCEPT ![c] = "done"]
    /\ UNCHANGED <<fn, args>>

\* the caller has its result (the cron callback logs an error, runJobNow
\* passes it on) and may call again
SyncReturn ==
  \E c \in Callers :
    /\ pc[c] = "done"
    /\ pc' = [pc EXCEPT ![c] = "idle"]
    /\ ret' = [ret EXCEPT ![c] = [threw |-> FALSE, status |-> "none"]]
    /\ args' = [args EXCEPT ![c] = [remaining |-> 0]]
    /\ UNCHANGED <<fn, ingestionStats>>

\* a suspended run goes on: its awaited promise settles
SyncProgress ==
  \/ FetchResolves
  \/ FetchRejects
  \/ ItemProcessed
  \/ ItemFailed
  \/ CacheCleared
  \/ CacheClearRejects

SyncNext ==
  \/ CallFullNEOSync
  \/ FetchResolves
  \/ FetchRejects
  \/ ItemProcessed
  \/ ItemFailed
  \/ CacheCleared
  \/ CacheClearRejects
  \/ SyncReturn

\* every awaited request settles (the HTTP calls carry a timeout)
SyncSpec == SyncInit /\ [][SyncNext]_vars /\ WF_vars(SyncProgress)

\* the callers whose run has started and not finished
InProgress == {c \in Callers : pc[c] \in {"fetch", "batch"}}

\* at most one run is in progress, and isRunning is set exactly while one is
SingleRun ==
  /\ Cardinality(InProgress) <= 1
  /\ ingestionStats.isRunning <=> InProgress # {}

\* a call that finds isRunning set returns 'skipped' and writes nothing
SkippedCallKeepsStats ==
  \A c \in Callers :
    pc[c] = "idle" /\ pc'[c] # "idle" /\ ingestionStats.isRunning =>
      /\ pc'[c] = "done"
      /\ ret'[c].status = "skipped"
      /\ ingestionStats' = ingestionStats

\* C30: at most one fullNEOSync run is in progress at any time under any
\* interleaving of the callers; a call that finds isRunning true returns
\* 'skipped' without resetting asteroidsProcessed or errors; and isRunning
\* is false again once a started run has finished, whether it completed or
\* threw, so that calls are not skipped forever.
C30_SingleSyncRun ==
  /\ []SingleRun
  /\ [][SkippedCallKeepsStats]_vars
  /\ ingestionStats.isRunning ~> ~ingestionStats.isRunning

\* the cron run has processed one of two entries and recorded an error for
\* the other while the manual call was skipped
C30_Witness ==
  /\ pc["cron"] = "batch"
  /\ pc["manual"] = "done"
  /\ ~ret["manual"].threw
  /\ ret["manual"].status = "skipped"
  /\ ingestionStats.isRunning
  /\ ingestionStats.asteroidsProcessed = 1
  /\ Len(ingestionStats.errors) = 1

====
